---- MODULE Spec2Model ----
(***************************************************************************)
(* cmdhooks: controller (pkg/cmdhooks), executor (pkg/executor),           *)
(* interceptor (pkg/interceptor) and wrapper (pkg/wrapper) as one state    *)
(* machine.  Goroutines and processes are interleaved at the points where  *)
(* they touch shared state: channels, the Unix socket, the process group.  *)
(***************************************************************************)
EXTENDS Integers, Sequences, FiniteSets, TLC

\* Number of monitored invocations (wrapper processes) of one session; the
\* connection slot c of the interceptor belongs to invocation c.
NumInv ==
    2

\* Number of transient Accept errors the listener may report.
MaxAcceptErrs ==
    1

Wrappers ==
    1..NumInv

\* Default evaluation timeout of the interceptor, in minutes.
DefaultEvaluateTimeout ==
    10

\* Durations given to SetEvaluateTimeout, in minutes.
Timeouts ==
    {-1, 0, 1}

\* Calls of Start on one interceptor (a second Execute starts it again).
MaxStarts ==
    2

\* Calls of Stop by the owner of an interceptor that is not running.
MaxIdleStops ==
    2

\* Calls of Close in a row.
MaxCloses ==
    2

VARIABLES
    \* ---- interceptor (Interceptor struct and its goroutines)
    hookKind,     \* capability of Interceptor.hook: "ipc" (hook.IPCHook) or "basic"
    exitSignal,   \* TRUE iff the exitSignal channel is closed
    stop,         \* TRUE iff the stop channel is closed
    listener,     \* "nil" | "open" | "closed"
    lpc,          \* listen goroutine: "none" | "check" | "accept" | "exited"
    acceptErrs,   \* transient Accept errors seen so far
    crash,        \* "none" | "nil_deref" | "double_close": panic that ended the controller process
    hpc,          \* per connection: "none" | "queued" | "reading" | "eval" | "closing" | "write" | "done"
    line,         \* per connection, what the peer put on it: "none" | "ok" | "badjson" | "toolong" | "eof"
    evalOut,      \* per connection, what Interceptor.hook returned: "none" | "allow" | "exit" | "error" | "nil" | "default"
    resp,         \* per connection, the *hook.Response the handler built: "none" | "exit" | "cont"
    wire,         \* per connection, the response lines that reached the peer
    writes,       \* per connection, calls of writeResponse by its handler
    exitEval,     \* TRUE iff some evaluation in processRequest returned Exit: true
                  \* since the last Execute started
    raised,       \* TRUE iff a handler closed exitSignal since the last Execute started
    cfgTimeout,   \* <<d>> for the last d given to SetEvaluateTimeout, <<>> when never called
    evaluateTimeout, \* Interceptor.evaluateTimeout, in minutes
    deadline,     \* per connection, timeout of the context given to the evaluation, in minutes (0: none)
    \* ---- files on disk and the calls made on the interceptor
    socketFile,   \* file at socketPath: "absent" | "present" | "stuck" (present, removal fails)
    wrapperDir,   \* directory made by createWrappers, same values
    starts,       \* calls of Interceptor.Start that succeeded
    idleStops,    \* calls of Interceptor.Stop made while the interceptor was not running
    closeRet,     \* what the calls of CmdHooks.Close since the last Execute returned
    ctlCommands,  \* the names returned by Commands() of the controller's hook
    wrapperFiles, \* the files createWrappers wrote into the latest wrapper directory:
                  \* a function from file names to permission bits
    \* ---- controller (CmdHooks.Execute / execute) and executor goroutine
    cpc,          \* "new" | "select" | "kill" | "kill_wait" | "kill_wait2" | "wait_done" | "returned" | "stopping" | "closed"
    result,       \* what Execute returned: "none" | "ok" | "failed" | "terminated" | "rejected"
                  \* | "setup_failed"
    abortAtReturn,\* TRUE iff exitSignal was closed when execute returned its result
    epc,          \* goroutine running Executor.Execute: "none" | "spawned" | "running" | "ran" | "done"
    runErr,       \* what cmd.Run returned: "none" | "nil" | "exit" | "start"
    sigterm,      \* TRUE iff SIGTERM was sent to the process group
    sigkill,      \* TRUE iff SIGKILL was sent to the process group
    \* ---- the root child and its process group
    rpc,          \* root child: "none" | "running" | "exited"
    rstatus,      \* exit status of the root child: "none" | "zero" | "nonzero" | "signaled"
    \* ---- wrapper processes (WrapperCommand.Run), one per invocation
    wpc,          \* "idle" | "pre" | "pre_ipc" | "exec" | "post" | "post_ipc" | "output" | "exited" | "killed"
    wexit,        \* exit status of the wrapper: "none" | "ok" | "fail"
    pre,          \* combined pre-run outcome: "none" | "allow" | "local_exit" | "remote_exit" | "error"
    post,         \* combined post-run outcome, same values
    real,         \* the real program: "none" | "notfound" | "running" | "ended"
    realCode,     \* exitCode returned by executeCommand: "none" | "zero" | "nonzero"
    preEvals,     \* completed pre-run calls of evaluateHooks
    postEvals,    \* completed post-run calls of evaluateHooks
    conns,        \* connections the wrapper opened to the interceptor
    relayed,      \* TRUE iff outputResults copied the captured output
    \* ---- one WrapperCommand.Run followed with its data
    wHook,        \* capability of w.Hook: "nil" | "basic" | "local" (hook.LocalHook)
    hookCommands, \* the names returned by the hook's Commands()
    command,      \* the argument vector given to Run: name, then arguments
    socketSet,    \* TRUE iff w.SocketPath is not empty
    metadata,     \* Run's metadata map, a function from keys to values
    upc,          \* "idle" | "pre_local" | "pre_ipc" | "exec" | "post_local" | "post_ipc" | "output" | "exited" | "returned"
    localResponse,\* <<>> for a nil response of evaluateLocalHook, else <<[exit, md]>>
    evaluations,  \* one record per finished evaluateHooks: [hook, local, remote, sent, resp]
    exitCode,     \* <<>>, or <<n>> for the exit code executeCommand returned
    captureFiles, \* the stdout/stderr temp files: "none" | "exist" | "removed"
    wstatus,      \* <<>>, or <<n>> for the exit status of the wrapper process
    executed,     \* <<>>, or <<[status, err]>>: the root child's exit status and the
                  \* error Execute returned for it (<<>> for nil, <<n>> for "code n")
    path,         \* PATH of the wrapper process: a sequence of directories
    launched,     \* <<>>, or <<[dir, env]>>: the directory of the program that
                  \* executeCommand started and the environment given to it
    environ,      \* os.Environ() of the controller: a sequence of entries, each
                  \* entry the sequence of the tokens of its "KEY=value" string
    verbose,      \* the Executor's verbose flag
    cmdEnv        \* <<>>, or cmd.Env of the root child that Executor.Execute built

ivars ==
    <<hookKind, exitSignal, stop, listener, lpc, acceptErrs, crash,
      hpc, line, evalOut, resp, wire, writes, exitEval, raised,
      cfgTimeout, evaluateTimeout, deadline>>

\* The timeout configuration of the interceptor.
tvars ==
    <<cfgTimeout, evaluateTimeout>>

\* Files and call counts.
fvars ==
    <<socketFile, wrapperDir, starts, idleStops, closeRet, ctlCommands, wrapperFiles>>

cvars ==
    <<cpc, result, abortAtReturn, epc, runErr, sigterm, sigkill>>

pvars ==
    <<rpc, rstatus>>

\* The Run that is followed with its data.
uvars ==
    <<wHook, hookCommands, command, socketSet, metadata, upc, localResponse,
      evaluations, exitCode, captureFiles, wstatus, executed, path, launched,
      environ, verbose, cmdEnv>>

wvars ==
    <<wpc, wexit, pre, post, real, realCode, preEvals, postEvals, conns, relayed, uvars>>

vars ==
    <<ivars, fvars, cvars, pvars, wvars>>

(***************************************************************************)
(* Wire format of a hook.Response (json tags "exit,omitempty" and          *)
(* "metadata,omitempty").                                                  *)
(***************************************************************************)
MarshalResponse(r) ==
    CASE r = "exit" -> "{\"exit\":true}"
      [] r = "cont_md" -> "{\"metadata\":{\"k\":\"v\"}}"
      [] OTHER -> "{}"

UnmarshalResponse(l) ==
    IF l = "{\"exit\":true}" THEN "exit" ELSE "cont"

\* The Metadata field json.Unmarshal finds in a response line: TRUE for the
\* mapping {"k": "v"}, FALSE for none.
UnmarshalMetadata(l) ==
    l = "{\"metadata\":{\"k\":\"v\"}}"

\* The controller process runs until a goroutine panics.
Alive ==
    crash = "none"

(***************************************************************************)
(* Interceptor                                                             *)
(***************************************************************************)
InterceptorNew ==
    /\ hookKind \in {"ipc", "basic"}
    /\ exitSignal = FALSE
    /\ stop = FALSE
    /\ listener = "nil"
    /\ lpc = "none"
    /\ acceptErrs = 0
    /\ crash = "none"
    /\ hpc = [c \in Wrappers |-> "none"]
    /\ line = [c \in Wrappers |-> "none"]
    /\ evalOut = [c \in Wrappers |-> "none"]
    /\ resp = [c \in Wrappers |-> "none"]
    /\ wire = [c \in Wrappers |-> <<>>]
    /\ writes = [c \in Wrappers |-> 0]
    /\ exitEval = FALSE
    /\ raised = FALSE
    /\ cfgTimeout = <<>>
    /\ evaluateTimeout = DefaultEvaluateTimeout
    /\ deadline = [c \in Wrappers |-> 0]

\* Interceptor.Start: os.Remove of a stale socket file, net.Listen creating the
\* file, chmod, go i.listen().
InterceptorStart ==
    /\ starts < MaxStarts
    /\ socketFile # "stuck"
    /\ listener' = "open"
    /\ lpc' = "check"
    /\ socketFile' = "present"
    /\ starts' = starts + 1

\* Top of the accept loop: select on i.stop with a default.
listenCheck ==
    /\ Alive
    /\ lpc = "check"
    /\ lpc' = IF stop THEN "exited" ELSE "accept"
    /\ UNCHANGED <<hookKind, exitSignal, stop, listener, acceptErrs, crash,
                   hpc, line, evalOut, resp, wire, writes, exitEval, raised, deadline>>
    /\ UNCHANGED <<tvars, fvars>>
    /\ UNCHANGED <<cvars, pvars, wvars>>

\* Variant: the loop handles a connection itself and accepts the next one
\* when no handler is running.
Accept_oneAtATime(c) ==
    /\ Alive
    /\ lpc = "accept"
    /\ listener = "open"
    /\ hpc[c] = "queued"
    /\ \A d \in Wrappers : hpc[d] \notin {"reading", "eval", "closing", "write"}
    /\ hpc' = [hpc EXCEPT ![c] = "reading"]
    /\ lpc' = "check"
    /\ UNCHANGED <<hookKind, exitSignal, stop, listener, acceptErrs, crash,
                   line, evalOut, resp, wire, writes, exitEval, raised, deadline>>
    /\ UNCHANGED <<tvars, fvars>>
    /\ UNCHANGED <<cvars, pvars, wvars>>

\* listener.Accept returns a connection; go i.handleConnection(conn).
Accept(c) ==
    /\ Alive
    /\ lpc = "accept"
    /\ listener = "open"
    /\ hpc[c] = "queued"
    /\ hpc' = [hpc EXCEPT ![c] = "reading"]
    /\ lpc' = "check"
    /\ UNCHANGED <<hookKind, exitSignal, stop, listener, acceptErrs, crash,
                   line, evalOut, resp, wire, writes, exitEval, raised, deadline>>
    /\ UNCHANGED <<tvars, fvars>>
    /\ UNCHANGED <<cvars, pvars, wvars>>

\* listener.Accept returns an error because Stop closed the listener: the loop
\* finds the stop pending and returns.
AcceptClosed ==
    /\ Alive
    /\ lpc = "accept"
    /\ listener = "closed"
    /\ lpc' = IF stop THEN "exited" ELSE "check"
    /\ UNCHANGED <<hookKind, exitSignal, stop, listener, acceptErrs, crash,
                   hpc, line, evalOut, resp, wire, writes, exitEval, raised, deadline>>
    /\ UNCHANGED <<tvars, fvars>>
    /\ UNCHANGED <<cvars, pvars, wvars>>

\* listener.Accept returns a transient error on an open listener: logged in
\* verbose mode, the loop continues unless a stop is pending.
AcceptError ==
    /\ Alive
    /\ lpc = "accept"
    /\ listener = "open"
    /\ acceptErrs < MaxAcceptErrs
    /\ acceptErrs' = acceptErrs + 1
    /\ lpc' = IF stop THEN "exited" ELSE "check"
    /\ UNCHANGED <<hookKind, exitSignal, stop, listener, crash,
                   hpc, line, evalOut, resp, wire, writes, exitEval, raised, deadline>>
    /\ UNCHANGED <<tvars, fvars>>
    /\ UNCHANGED <<cvars, pvars, wvars>>

\* readRequest as handleConnection uses it: scanner.Scan fails on EOF and on a
\* line over MaxIPCMessageBytes, json.Unmarshal fails on a malformed line; each
\* failure selects the error response {Exit: true}.
readRequest(c) ==
    /\ Alive
    /\ hpc[c] = "reading"
    /\ line[c] # "none"
    /\ IF line[c] = "ok"
         THEN /\ hpc' = [hpc EXCEPT ![c] = "eval"]
              /\ resp' = resp
         ELSE /\ hpc' = [hpc EXCEPT ![c] = "write"]
              /\ resp' = [resp EXCEPT ![c] = "exit"]
    /\ UNCHANGED <<hookKind, exitSignal, stop, listener, lpc, acceptErrs, crash,
                   line, evalOut, wire, writes, exitEval, raised, deadline>>
    /\ UNCHANGED <<tvars, fvars>>
    /\ UNCHANGED <<cvars, pvars, wvars>>

\* SetEvaluateTimeout: only a positive duration is stored.
SetEvaluateTimeout(d) ==
    /\ Alive
    /\ d \in Timeouts
    /\ cfgTimeout # <<d>>
    /\ cfgTimeout' = <<d>>
    /\ evaluateTimeout' = IF d > 0 THEN d ELSE evaluateTimeout
    /\ UNCHANGED <<hookKind, exitSignal, stop, listener, lpc, acceptErrs, crash,
                   hpc, line, evalOut, resp, wire, writes, exitEval, raised, deadline>>
    /\ UNCHANGED <<fvars, cvars, pvars, wvars>>

\* The timeout processRequest gives to the evaluation context: a non-positive
\* evaluateTimeout is replaced by ten minutes.
EvaluationTimeout ==
    IF evaluateTimeout <= 0 THEN DefaultEvaluateTimeout ELSE evaluateTimeout

\* What i.hook can return to processRequest; "allow_md" is a response with
\* Exit false and the metadata {"k": "v"}.
HookOutcomes(h) ==
    IF h = "ipc" THEN {"allow", "allow_md", "exit", "error", "nil"} ELSE {"default"}

\* The outcomes of the type switch on i.hook as it is now.
EvalOutcomes ==
    HookOutcomes(hookKind)

\* Variant: the default branch of the type switch denies.
EvalResponse_defaultDenies(out) ==
    CASE out = "error" -> "exit"
      [] out = "exit" -> "exit"
      [] out = "nil" -> "nil"
      [] out = "allow" -> "cont"
      [] out = "allow_md" -> "cont_md"
      [] OTHER -> "exit"

\* The response processRequest holds after the type switch; "nil" is a nil
\* *hook.Response returned with a nil error.
EvalResponse(out) ==
    CASE out = "error" -> "exit"
      [] out = "exit" -> "exit"
      [] out = "nil" -> "nil"
      [] out = "allow_md" -> "cont_md"
      [] OTHER -> "cont"

\* resp := &hook.Response{Exit: response.Exit}: the response that is written
\* has the Exit field of the evaluation's response and nothing else.
ExitOnly(r) ==
    IF r = "exit" THEN "exit" ELSE "cont"

\* processRequest up to the non-blocking receive on i.exitSignal.
processRequest(c, out) ==
    /\ Alive
    /\ hpc[c] = "eval"
    /\ out \in EvalOutcomes
    /\ evalOut' = [evalOut EXCEPT ![c] = out]
    /\ exitEval' = (exitEval \/ out = "exit")
    /\ raised' = raised
    /\ deadline' = [deadline EXCEPT ![c] = EvaluationTimeout]
    /\ IF EvalResponse(out) = "nil"
         THEN \* response.Exit dereferences nil: the goroutine panics
              /\ crash' = "nil_deref"
              /\ UNCHANGED <<hpc, resp>>
         ELSE /\ crash' = crash
              /\ resp' = [resp EXCEPT ![c] = ExitOnly(EvalResponse(out))]
              /\ hpc' = [hpc EXCEPT ![c] =
                           IF EvalResponse(out) = "exit" /\ ~exitSignal
                             THEN "closing" ELSE "write"]
    /\ UNCHANGED <<hookKind, exitSignal, stop, listener, lpc, acceptErrs,
                   line, wire, writes>>
    /\ UNCHANGED <<tvars, fvars>>
    /\ UNCHANGED <<cvars, pvars, wvars>>

\* The default branch of that select: close(i.exitSignal).  Closing a closed
\* channel panics.
closeExitSignal(c) ==
    /\ Alive
    /\ hpc[c] = "closing"
    /\ IF exitSignal
         THEN /\ crash' = "double_close"
              /\ UNCHANGED <<exitSignal, hpc, raised>>
         ELSE /\ exitSignal' = TRUE
              /\ raised' = TRUE
              /\ hpc' = [hpc EXCEPT ![c] = "write"]
              /\ crash' = crash
    /\ UNCHANGED <<hookKind, stop, listener, lpc, acceptErrs,
                   line, evalOut, resp, wire, writes, exitEval, deadline>>
    /\ UNCHANGED <<tvars, fvars>>
    /\ UNCHANGED <<cvars, pvars, wvars>>

\* writeResponse followed by the deferred conn.Close and wg.Done.  A failed
\* write is logged and ignored.
writeResponse(c, ok) ==
    /\ Alive
    /\ hpc[c] = "write"
    /\ wire' = [wire EXCEPT ![c] =
                  IF ok THEN Append(@, MarshalResponse(resp[c])) ELSE @]
    /\ writes' = [writes EXCEPT ![c] = @ + 1]
    /\ hpc' = [hpc EXCEPT ![c] = "done"]
    /\ UNCHANGED <<hookKind, exitSignal, stop, listener, lpc, acceptErrs, crash,
                   line, evalOut, resp, exitEval, raised, deadline>>
    /\ UNCHANGED <<tvars, fvars>>
    /\ UNCHANGED <<cvars, pvars, wvars>>

\* Handlers still counted by i.wg.
HandlersRunning ==
    {c \in Wrappers : hpc[c] \in {"reading", "eval", "closing", "write"}}

\* Variant: Stop closes i.stop without looking whether it is closed already.
StopSelect_closesAgain ==
    /\ IF stop
         THEN /\ crash' = "double_close"
              /\ UNCHANGED <<stop, cpc>>
         ELSE /\ stop' = TRUE
              /\ cpc' = "stop1"
              /\ crash' = crash
    /\ UNCHANGED <<hookKind, exitSignal, listener, lpc, acceptErrs,
                   hpc, line, evalOut, resp, wire, writes, exitEval, raised, deadline>>
    /\ UNCHANGED <<tvars, socketFile, starts, closeRet, ctlCommands, wrapperFiles>>
    /\ UNCHANGED <<result, abortAtReturn, epc, runErr, sigterm, sigkill>>
    /\ UNCHANGED <<pvars, wvars>>

\* Interceptor.Stop, the select on i.stop: the call returns at once when the
\* channel is closed already, and closes it otherwise.
StopSelect ==
    /\ IF stop
         THEN /\ cpc' = "closed"
              /\ stop' = stop
         ELSE /\ stop' = TRUE
              /\ cpc' = "stop1"
    /\ crash' = crash
    /\ UNCHANGED <<hookKind, exitSignal, listener, lpc, acceptErrs,
                   hpc, line, evalOut, resp, wire, writes, exitEval, raised, deadline>>
    /\ UNCHANGED <<tvars, socketFile, starts, closeRet, ctlCommands, wrapperFiles>>
    /\ UNCHANGED <<result, abortAtReturn, epc, runErr, sigterm, sigkill>>
    /\ UNCHANGED <<pvars, wvars>>

\* What os.Remove / os.RemoveAll leaves of a file.
Removed(f) ==
    IF f = "present" THEN "absent" ELSE f

\* The cleanup Execute defers (os.RemoveAll of the wrapper directory, then
\* Interceptor.Stop), or Stop called by the owner of a running bare
\* Interceptor: up to the select on i.stop.
StopCloseStop ==
    /\ Alive
    /\ cpc \in {"started", "returned"}
    /\ wrapperDir' = Removed(wrapperDir)
    /\ idleStops' = idleStops
    /\ StopSelect

\* Stop called on an interceptor that was never started, or again after a Stop
\* has returned.
StopIdle ==
    /\ Alive
    /\ cpc \in {"new", "closed"}
    /\ idleStops < MaxIdleStops
    /\ idleStops' = idleStops + 1
    /\ wrapperDir' = wrapperDir
    /\ StopSelect

\* Interceptor.Stop: i.listener.Close() when the listener is not nil; closing a
\* Unix listener unlinks its socket file.
StopCloseListener ==
    /\ Alive
    /\ cpc = "stop1"
    /\ listener' = IF listener = "nil" THEN "nil" ELSE "closed"
    /\ socketFile' = IF listener = "open" THEN Removed(socketFile) ELSE socketFile
    /\ cpc' = "stopping"
    /\ UNCHANGED <<hookKind, exitSignal, stop, lpc, acceptErrs, crash,
                   hpc, line, evalOut, resp, wire, writes, exitEval, raised, deadline>>
    /\ UNCHANGED <<tvars, wrapperDir, starts, idleStops, closeRet, ctlCommands, wrapperFiles>>
    /\ UNCHANGED <<result, abortAtReturn, epc, runErr, sigterm, sigkill>>
    /\ UNCHANGED <<pvars, wvars>>

\* Interceptor.Stop: i.wg.Wait() returns, os.Remove(i.socketPath); the call
\* returns (and with it Execute, when its cleanup made the call).
StopReturn ==
    /\ Alive
    /\ cpc = "stopping"
    /\ lpc \in {"none", "exited"}
    /\ HandlersRunning = {}
    /\ socketFile' = Removed(socketFile)
    /\ cpc' = "closed"
    /\ UNCHANGED ivars
    /\ UNCHANGED <<wrapperDir, starts, idleStops, closeRet, ctlCommands, wrapperFiles>>
    /\ UNCHANGED <<result, abortAtReturn, epc, runErr, sigterm, sigkill>>
    /\ UNCHANGED <<pvars, wvars>>

(***************************************************************************)
(* A client of the socket other than a wrapper (the interceptor's tests    *)
(* dial it directly): it connects, then sends one line or hangs up.        *)
(***************************************************************************)
ClientLines ==
    {"ok", "badjson", "toolong"}

ClientConnect(c) ==
    /\ Alive
    /\ listener = "open"
    /\ hpc[c] = "none"
    /\ hpc' = [hpc EXCEPT ![c] = "queued"]
    /\ UNCHANGED <<hookKind, exitSignal, stop, listener, lpc, acceptErrs, crash,
                   line, evalOut, resp, wire, writes, exitEval, raised, deadline>>
    /\ UNCHANGED <<tvars, fvars>>
    /\ UNCHANGED <<cvars, pvars, wvars>>

ClientSend(c, l) ==
    /\ hpc[c] \in {"queued", "reading"}
    /\ line[c] = "none"
    /\ l \in ClientLines
    /\ line' = [line EXCEPT ![c] = l]
    /\ UNCHANGED <<hookKind, exitSignal, stop, listener, lpc, acceptErrs, crash,
                   hpc, evalOut, resp, wire, writes, exitEval, raised, deadline>>
    /\ UNCHANGED <<tvars, fvars>>
    /\ UNCHANGED <<cvars, pvars, wvars>>

ClientClose(c) ==
    /\ hpc[c] \in {"queued", "reading"}
    /\ line[c] = "none"
    /\ line' = [line EXCEPT ![c] = "eof"]
    /\ UNCHANGED <<hookKind, exitSignal, stop, listener, lpc, acceptErrs, crash,
                   hpc, evalOut, resp, wire, writes, exitEval, raised, deadline>>
    /\ UNCHANGED <<tvars, fvars>>
    /\ UNCHANGED <<cvars, pvars, wvars>>

\* The owner of a bare Interceptor calls Start.
IStart ==
    /\ Alive
    /\ cpc \in {"new", "closed"}
    /\ InterceptorStart
    /\ cpc' = "started"
    /\ UNCHANGED <<hookKind, exitSignal, stop, acceptErrs, crash,
                   hpc, line, evalOut, resp, wire, writes, exitEval, raised, deadline>>
    /\ UNCHANGED <<tvars, wrapperDir, idleStops, closeRet, ctlCommands, wrapperFiles>>
    /\ UNCHANGED <<result, abortAtReturn, epc, runErr, sigterm, sigkill>>
    /\ UNCHANGED <<pvars, wvars>>

(***************************************************************************)
(* Initial state: cmdhooks.New / interceptor.New have returned.            *)
(***************************************************************************)
\* A directory without files.
NoFiles ==
    [n \in {} |-> "0700"]

InitSession ==
    /\ InterceptorNew
    /\ socketFile = "absent"
    /\ wrapperDir = "absent"
    /\ starts = 0
    /\ idleStops = 0
    /\ closeRet = <<>>
    /\ ctlCommands = {"curl"}
    /\ wrapperFiles = NoFiles
    /\ cpc = "new"
    /\ result = "none"
    /\ abortAtReturn = FALSE
    /\ epc = "none"
    /\ runErr = "none"
    /\ sigterm = FALSE
    /\ sigkill = FALSE
    /\ rpc = "none"
    /\ rstatus = "none"
    /\ wpc = [i \in Wrappers |-> "idle"]
    /\ wexit = [i \in Wrappers |-> "none"]
    /\ pre = [i \in Wrappers |-> "none"]
    /\ post = [i \in Wrappers |-> "none"]
    /\ real = [i \in Wrappers |-> "none"]
    /\ realCode = [i \in Wrappers |-> "none"]
    /\ preEvals = [i \in Wrappers |-> 0]
    /\ postEvals = [i \in Wrappers |-> 0]
    /\ conns = [i \in Wrappers |-> 0]
    /\ relayed = [i \in Wrappers |-> FALSE]

\* A map without keys (a nil map reads the same).
EmptyMap ==
    [k \in {} |-> "x"]

\* No Run is followed with its data.
RunNotStarted ==
    /\ wHook = "nil"
    /\ hookCommands = {}
    /\ command = <<>>
    /\ socketSet = FALSE
    /\ metadata = EmptyMap
    /\ upc = "idle"
    /\ localResponse = <<>>
    /\ evaluations = <<>>
    /\ exitCode = <<>>
    /\ captureFiles = "none"
    /\ wstatus = <<>>
    /\ executed = <<>>
    /\ path = <<>>
    /\ launched = <<>>

\* The environment variables of the controller's process.
HomeEntry ==
    <<"HOME", "=", "/home/u">>

\* The controller was started with PATH=/usr/bin:/bin and is not verbose.
EnvironDefault ==
    /\ environ = <<HomeEntry, <<"PATH", "=", "/usr/bin", ":", "/bin">> >>
    /\ verbose = FALSE
    /\ cmdEnv = <<>>

Init ==
    /\ InitSession
    /\ RunNotStarted
    /\ EnvironDefault

(***************************************************************************)
(* Wrapper process: WrapperCommand.Run                                     *)
(***************************************************************************)
WrapperAlive(i) ==
    wpc[i] \in {"pre", "pre_ipc", "exec", "post", "post_ipc", "output"}

\* What the local stage (evaluateLocalHook) yields: "skip" when the hook has no
\* EvaluateLocal, does not handle the command, or returns a nil response.
LocalOutcomes ==
    {"skip", "allow", "exit", "error"}

\* Request lines a wrapper can send: json.Marshal of its Request, which is over
\* MaxIPCMessageBytes when the argument vector is long enough.
WrapperLines ==
    {"ok", "toolong"}

\* net.Dial on the socket succeeds while the interceptor listens.
CanDial ==
    Alive /\ listener = "open"

\* runHook's scanner.Scan returns: a line was written and the connection
\* closed, or the connection ended without one.
ResponseReady(i) ==
    \/ hpc[i] = "done"
    \/ ~Alive
    \/ hpc[i] = "queued" /\ listener = "closed"

\* What runHook returns: the parsed response, or an error when no line came.
runHookResult(i) ==
    IF hpc[i] = "done" /\ Len(wire[i]) > 0
      THEN UnmarshalResponse(wire[i][1])
      ELSE "error"

\* runHook returns: its deferred conn.Close releases the connection.
runHookClose(i) ==
    /\ hpc' = [hpc EXCEPT ![i] = IF @ = "done" THEN "none" ELSE @]
    /\ line' = [line EXCEPT ![i] = IF hpc[i] = "done" THEN "none" ELSE @]
    /\ evalOut' = [evalOut EXCEPT ![i] = IF hpc[i] = "done" THEN "none" ELSE @]
    /\ resp' = [resp EXCEPT ![i] = IF hpc[i] = "done" THEN "none" ELSE @]
    /\ wire' = [wire EXCEPT ![i] = IF hpc[i] = "done" THEN <<>> ELSE @]
    /\ writes' = [writes EXCEPT ![i] = IF hpc[i] = "done" THEN 0 ELSE @]
    /\ deadline' = [deadline EXCEPT ![i] = IF hpc[i] = "done" THEN 0 ELSE @]

\* runHook: dial and send the request line.
runHookSend(i, l) ==
    /\ hpc' = [hpc EXCEPT ![i] = "queued"]
    /\ line' = [line EXCEPT ![i] = l]
    /\ evalOut' = [evalOut EXCEPT ![i] = "none"]
    /\ resp' = [resp EXCEPT ![i] = "none"]
    /\ wire' = [wire EXCEPT ![i] = <<>>]
    /\ writes' = [writes EXCEPT ![i] = 0]
    /\ deadline' = [deadline EXCEPT ![i] = 0]
    /\ conns' = [conns EXCEPT ![i] = @ + 1]

\* Run returns an error: main calls log.Fatal, exit status 1.
WrapperFail(i) ==
    /\ wpc' = [wpc EXCEPT ![i] = "exited"]
    /\ wexit' = [wexit EXCEPT ![i] = "fail"]

\* The wrapper directory made by createWrappers is on the PATH of the tree until
\* the cleanup deferred by Execute removes it.
WrappersInstalled ==
    cpc \in {"select", "kill", "kill_wait", "kill_wait2", "wait_done", "returned"}

\* A live process of the tree (the root script or a real program) invokes a
\* monitored command; invocations are numbered in the order they start.
Invoke(i) ==
    /\ wpc[i] = "idle"
    /\ WrappersInstalled
    /\ IF i = 1 THEN TRUE ELSE wpc[i - 1] # "idle"
    /\ rpc = "running" \/ \E j \in Wrappers : real[j] = "running"
    /\ wpc' = [wpc EXCEPT ![i] = "pre"]
    /\ UNCHANGED <<wexit, pre, post, real, realCode, preEvals, postEvals, conns, relayed>>
    /\ UNCHANGED <<ivars, fvars, cvars, pvars, uvars>>

\* Variant: evaluateHooks does not return on a local Exit and goes on to the
\* remote stage.
executePreRun_localExitContinues(i, lo, l) ==
    /\ wpc[i] = "pre"
    /\ lo \in LocalOutcomes
    /\ l \in WrapperLines
    /\ IF lo = "error" \/ ~CanDial
         THEN /\ pre' = [pre EXCEPT ![i] = IF lo = "exit" THEN "local_exit" ELSE "error"]
              /\ preEvals' = [preEvals EXCEPT ![i] = @ + 1]
              /\ WrapperFail(i)
              /\ UNCHANGED <<hpc, line, evalOut, resp, wire, writes, deadline, conns>>
         ELSE /\ runHookSend(i, l)
              /\ pre' = [pre EXCEPT ![i] = IF lo = "exit" THEN "local_exit" ELSE @]
              /\ wpc' = [wpc EXCEPT ![i] = "pre_ipc"]
              /\ UNCHANGED <<preEvals, wexit>>
    /\ UNCHANGED <<post, real, realCode, postEvals, relayed>>
    /\ UNCHANGED <<hookKind, exitSignal, stop, listener, lpc, acceptErrs, crash, exitEval, raised>>
    /\ UNCHANGED <<tvars, fvars>>
    /\ UNCHANGED <<cvars, pvars, uvars>>

\* executePreRun, evaluateHooks up to the remote stage: the local stage, then
\* runHook's dial and send.
executePreRun(i, lo, l) ==
    /\ wpc[i] = "pre"
    /\ lo \in LocalOutcomes
    /\ l \in WrapperLines
    /\ IF lo \in {"exit", "error"} \/ ~CanDial
         THEN /\ pre' = [pre EXCEPT ![i] = IF lo = "exit" THEN "local_exit" ELSE "error"]
              /\ preEvals' = [preEvals EXCEPT ![i] = @ + 1]
              /\ WrapperFail(i)
              /\ UNCHANGED <<hpc, line, evalOut, resp, wire, writes, deadline, conns>>
         ELSE /\ runHookSend(i, l)
              /\ wpc' = [wpc EXCEPT ![i] = "pre_ipc"]
              /\ UNCHANGED <<pre, preEvals, wexit>>
    /\ UNCHANGED <<post, real, realCode, postEvals, relayed>>
    /\ UNCHANGED <<hookKind, exitSignal, stop, listener, lpc, acceptErrs, crash, exitEval, raised>>
    /\ UNCHANGED <<tvars, fvars>>
    /\ UNCHANGED <<cvars, pvars, uvars>>

\* Variant: executePreRun reports the Exit response without failing, so Run
\* goes on to executeCommand.
preRunResult_exitIgnored(i, found) ==
    /\ wpc[i] = "pre_ipc"
    /\ ResponseReady(i)
    /\ preEvals' = [preEvals EXCEPT ![i] = @ + 1]
    /\ pre' = [pre EXCEPT ![i] =
                 CASE runHookResult(i) = "cont" -> "allow"
                   [] runHookResult(i) = "exit" -> "remote_exit"
                   [] OTHER -> "error"]
    /\ IF runHookResult(i) \in {"cont", "exit"}
         THEN /\ wexit' = wexit
              /\ IF found
                   THEN /\ real' = [real EXCEPT ![i] = "running"]
                        /\ realCode' = realCode
                        /\ wpc' = [wpc EXCEPT ![i] = "exec"]
                   ELSE /\ real' = [real EXCEPT ![i] = "notfound"]
                        /\ realCode' = [realCode EXCEPT ![i] = "nonzero"]
                        /\ wpc' = [wpc EXCEPT ![i] = "post"]
         ELSE /\ WrapperFail(i)
              /\ UNCHANGED <<real, realCode>>
    /\ runHookClose(i)
    /\ UNCHANGED <<post, postEvals, conns, relayed>>
    /\ UNCHANGED <<hookKind, exitSignal, stop, listener, lpc, acceptErrs, crash, exitEval, raised>>
    /\ UNCHANGED <<tvars, fvars>>
    /\ UNCHANGED <<cvars, pvars, uvars>>

\* executePreRun after the remote stage answered, then Run's call of
\* executeCommand: exec.LookPath on the clean PATH and execCmd starting.
preRunResult(i, found) ==
    /\ wpc[i] = "pre_ipc"
    /\ ResponseReady(i)
    /\ preEvals' = [preEvals EXCEPT ![i] = @ + 1]
    /\ IF runHookResult(i) = "cont"
         THEN /\ pre' = [pre EXCEPT ![i] = "allow"]
              /\ wexit' = wexit
              /\ IF found
                   THEN /\ real' = [real EXCEPT ![i] = "running"]
                        /\ realCode' = realCode
                        /\ wpc' = [wpc EXCEPT ![i] = "exec"]
                   ELSE /\ real' = [real EXCEPT ![i] = "notfound"]
                        /\ realCode' = [realCode EXCEPT ![i] = "nonzero"]
                        /\ wpc' = [wpc EXCEPT ![i] = "post"]
         ELSE /\ pre' = [pre EXCEPT ![i] =
                           IF runHookResult(i) = "exit" THEN "remote_exit" ELSE "error"]
              /\ WrapperFail(i)
              /\ UNCHANGED <<real, realCode>>
    /\ runHookClose(i)
    /\ UNCHANGED <<post, postEvals, conns, relayed>>
    /\ UNCHANGED <<hookKind, exitSignal, stop, listener, lpc, acceptErrs, crash, exitEval, raised>>
    /\ UNCHANGED <<tvars, fvars>>
    /\ UNCHANGED <<cvars, pvars, uvars>>

\* Variant: Run goes from executeCommand straight to outputResults.
realExit_skipsPostRun(i, code) ==
    /\ real[i] = "running"
    /\ code \in {"zero", "nonzero"}
    /\ real' = [real EXCEPT ![i] = "ended"]
    /\ realCode' = [realCode EXCEPT ![i] = code]
    /\ wpc' = [wpc EXCEPT ![i] = IF @ = "exec" THEN "output" ELSE @]
    /\ UNCHANGED <<wexit, pre, post, preEvals, postEvals, conns, relayed>>
    /\ UNCHANGED <<ivars, fvars, cvars, pvars, uvars>>

\* The real program ends by itself; execCmd.Run returns in the wrapper.
realExit(i, code) ==
    /\ real[i] = "running"
    /\ code \in {"zero", "nonzero"}
    /\ real' = [real EXCEPT ![i] = "ended"]
    /\ realCode' = [realCode EXCEPT ![i] = code]
    /\ wpc' = [wpc EXCEPT ![i] = IF @ = "exec" THEN "post" ELSE @]
    /\ UNCHANGED <<wexit, pre, post, preEvals, postEvals, conns, relayed>>
    /\ UNCHANGED <<ivars, fvars, cvars, pvars, uvars>>

\* executePostRun, evaluateHooks up to the remote stage.
executePostRun(i, lo, l) ==
    /\ wpc[i] = "post"
    /\ lo \in LocalOutcomes
    /\ l \in WrapperLines
    /\ IF lo \in {"exit", "error"} \/ ~CanDial
         THEN /\ post' = [post EXCEPT ![i] = IF lo = "exit" THEN "local_exit" ELSE "error"]
              /\ postEvals' = [postEvals EXCEPT ![i] = @ + 1]
              /\ WrapperFail(i)
              /\ UNCHANGED <<hpc, line, evalOut, resp, wire, writes, deadline, conns>>
         ELSE /\ runHookSend(i, l)
              /\ wpc' = [wpc EXCEPT ![i] = "post_ipc"]
              /\ UNCHANGED <<post, postEvals, wexit>>
    /\ UNCHANGED <<pre, real, realCode, preEvals, relayed>>
    /\ UNCHANGED <<hookKind, exitSignal, stop, listener, lpc, acceptErrs, crash, exitEval, raised>>
    /\ UNCHANGED <<tvars, fvars>>
    /\ UNCHANGED <<cvars, pvars, uvars>>

\* executePostRun after the remote stage answered.
postRunResult(i) ==
    /\ wpc[i] = "post_ipc"
    /\ ResponseReady(i)
    /\ postEvals' = [postEvals EXCEPT ![i] = @ + 1]
    /\ IF runHookResult(i) = "cont"
         THEN /\ post' = [post EXCEPT ![i] = "allow"]
              /\ wpc' = [wpc EXCEPT ![i] = "output"]
              /\ wexit' = wexit
         ELSE /\ post' = [post EXCEPT ![i] =
                            IF runHookResult(i) = "exit" THEN "remote_exit" ELSE "error"]
              /\ WrapperFail(i)
    /\ runHookClose(i)
    /\ UNCHANGED <<pre, real, realCode, preEvals, conns, relayed>>
    /\ UNCHANGED <<hookKind, exitSignal, stop, listener, lpc, acceptErrs, crash, exitEval, raised>>
    /\ UNCHANGED <<tvars, fvars>>
    /\ UNCHANGED <<cvars, pvars, uvars>>

\* outputResults, then the end of Run: os.Exit(exitCode) for a non-zero code,
\* otherwise Run returns executeCommand's error.
outputResults(i) ==
    /\ wpc[i] = "output"
    /\ relayed' = [relayed EXCEPT ![i] = TRUE]
    /\ wpc' = [wpc EXCEPT ![i] = "exited"]
    /\ wexit' = [wexit EXCEPT ![i] = IF realCode[i] = "zero" THEN "ok" ELSE "fail"]
    /\ UNCHANGED <<pre, post, real, realCode, preEvals, postEvals, conns>>
    /\ UNCHANGED <<ivars, fvars, cvars, pvars, uvars>>

(***************************************************************************)
(* One WrapperCommand.Run with its data: command names, metadata maps,     *)
(* exit codes and capture files.  The hook and the interceptor are the     *)
(* environment: their answers are chosen freely.                           *)
(***************************************************************************)
\* Names a hook can list in Commands().
CommandNames ==
    {"curl", "CURL", "*"}

\* Argument vectors given to Run.
Invocations ==
    {<<>>, <<"curl">>, <<"wget", "curl">>}

\* Exit codes of the real program.
ExitCodes ==
    {0, 1, 42}

\* Metadata a hook can return.
HookMaps ==
    UNION {[D -> {"x"}] : D \in SUBSET {"stdout_file", "note"}}

\* What EvaluateLocal can return: an error, a nil response, or a response.
LocalResults ==
    [kind : {"error", "nil"}, exit : {FALSE}, md : {EmptyMap}]
      \cup [kind : {"resp"}, exit : BOOLEAN, md : HookMaps]

\* What runHook can return: an error or the interceptor's response.
RemoteResults ==
    [kind : {"error"}, exit : {FALSE}, md : {EmptyMap}]
      \cup [kind : {"resp"}, exit : BOOLEAN, md : {EmptyMap, [k \in {"note"} |-> "r"]}]

\* The wrapper variables of the session's invocations.
swvars ==
    <<wpc, wexit, pre, post, real, realCode, preEvals, postEvals, conns, relayed>>

\* m[k] = v
Put(m, k, v) ==
    [x \in DOMAIN m \cup {k} |-> IF x = k THEN v ELSE m[x]]

\* maps.Copy(dst, src)
Copy(dst, src) ==
    [k \in DOMAIN dst \cup DOMAIN src |-> IF k \in DOMAIN src THEN src[k] ELSE dst[k]]

\* Variant: the request's own values win on a conflict.
MergeMetadata_requestWins(reqMd, local) ==
    IF local # <<>> THEN Copy(local[1].md, reqMd) ELSE Copy(EmptyMap, reqMd)

\* evaluateIPCHook: a fresh map receives the request's metadata, then the
\* metadata of the local response when there is one.
MergeMetadata(reqMd, local) ==
    IF local # <<>> THEN Copy(Copy(EmptyMap, reqMd), local[1].md) ELSE Copy(EmptyMap, reqMd)

\* strings.ToLower on the names of the model.
Lower(n) ==
    IF n = "CURL" THEN "curl" ELSE n

\* Variant: names are compared without regard to case.
hookHandlesCommand_foldsCase(hookCmds, requestCommand) ==
    \E cmd \in hookCmds : Lower(cmd) = Lower(requestCommand) \/ cmd = "*"

hookHandlesCommand(hookCmds, requestCommand) ==
    \E cmd \in hookCmds : cmd = requestCommand \/ cmd = "*"

\* evaluateLocalHook calls EvaluateLocal: the hook is a hook.LocalHook and
\* handles req.Command[0].
LocalApplies ==
    /\ wHook = "local"
    /\ Len(command) > 0
    /\ hookHandlesCommand(hookCommands, command[1])

\* The phase evaluateHooks is called for.
Phase ==
    IF upc \in {"pre_local", "pre_ipc"} THEN "pre" ELSE "post"

\* Run starts: validateCommand, then the empty metadata map.
RunStart ==
    /\ upc = "idle"
    /\ metadata' = EmptyMap
    /\ IF Len(command) = 0
         THEN /\ upc' = "exited"
              /\ wstatus' = <<1>>
         ELSE /\ upc' = "pre_local"
              /\ wstatus' = wstatus
    /\ UNCHANGED <<environ, verbose, cmdEnv, path, launched, executed, wHook, hookCommands, command, socketSet, localResponse,
                   evaluations, exitCode, captureFiles>>
    /\ UNCHANGED <<ivars, fvars, cvars, pvars, swvars>>

\* Run returns an error: the deferred os.Remove calls run, main calls
\* log.Fatal.
RunFails ==
    /\ upc' = "exited"
    /\ wstatus' = <<1>>
    /\ captureFiles' = IF captureFiles = "exist" THEN "removed" ELSE captureFiles

\* evaluateHooks goes on after a stage that allowed.
NextStage ==
    upc' = CASE upc = "pre_local" -> "pre_ipc"
             [] upc = "pre_ipc" -> "exec"
             [] upc = "post_local" -> "post_ipc"
             [] OTHER -> "output"

\* The record of a finished evaluateHooks.
Evaluation(lresp, lerr, remote, sent, r) ==
    [hook |-> Phase, local |-> LocalApplies, lresp |-> lresp, lerr |-> lerr, remote |-> remote,
     incoming |-> metadata, sent |-> sent, resp |-> r]

\* Variant: a local exit does not end evaluateHooks.
LocalEnds_never(r) ==
    FALSE

\* evaluateHooks: localResponse != nil && localResponse.Exit
LocalEnds(r) ==
    r.exit

\* evaluateHooks, the local stage: evaluateLocalHook, and the return when it
\* failed or asked for exit.
evaluateLocalHook(out) ==
    /\ upc \in {"pre_local", "post_local"}
    /\ out \in LocalResults
    /\ IF ~LocalApplies \/ out.kind = "nil"
         THEN /\ LocalApplies \/ out = [kind |-> "nil", exit |-> FALSE, md |-> EmptyMap]
              /\ localResponse' = <<>>
              /\ NextStage
              /\ UNCHANGED <<evaluations, wstatus, captureFiles>>
         ELSE IF out.kind = "error"
           THEN /\ localResponse' = <<>>
                /\ evaluations' = Append(evaluations, Evaluation(<<>>, TRUE, FALSE, EmptyMap, <<>>))
                /\ RunFails
           ELSE /\ localResponse' = <<[exit |-> out.exit, md |-> out.md]>>
                /\ IF LocalEnds(out)
                     THEN /\ evaluations' = Append(evaluations,
                                 Evaluation(<<[exit |-> out.exit, md |-> out.md]>>, FALSE, FALSE, EmptyMap,
                                            <<[exit |-> out.exit, md |-> out.md]>>))
                          /\ RunFails
                     ELSE /\ NextStage
                          /\ UNCHANGED <<evaluations, wstatus, captureFiles>>
    /\ UNCHANGED <<environ, verbose, cmdEnv, path, launched, executed, wHook, hookCommands, command, socketSet, metadata, exitCode>>
    /\ UNCHANGED <<ivars, fvars, cvars, pvars, swvars>>

\* evaluateHooks, the remote stage and the choice of the combined response:
\* evaluateIPCHook returns nil without a socket path, otherwise it sends the
\* merged request through runHook.
evaluateIPCHook(out) ==
    /\ upc \in {"pre_ipc", "post_ipc"}
    /\ out \in RemoteResults
    /\ IF ~socketSet
         THEN /\ out = [kind |-> "error", exit |-> FALSE, md |-> EmptyMap]
              /\ evaluations' = Append(evaluations,
                     Evaluation(localResponse, FALSE, FALSE, EmptyMap,
                                IF localResponse # <<>> THEN localResponse
                                ELSE <<[exit |-> FALSE, md |-> EmptyMap]>>))
              /\ NextStage
              /\ UNCHANGED <<wstatus, captureFiles>>
         ELSE IF out.kind = "error"
           THEN /\ evaluations' = Append(evaluations,
                       Evaluation(localResponse, FALSE, TRUE, MergeMetadata(metadata, localResponse), <<>>))
                /\ RunFails
           ELSE /\ evaluations' = Append(evaluations,
                       Evaluation(localResponse, FALSE, TRUE, MergeMetadata(metadata, localResponse),
                                  <<[exit |-> out.exit, md |-> out.md]>>))
                /\ IF out.exit
                     THEN RunFails
                     ELSE /\ NextStage
                          /\ UNCHANGED <<wstatus, captureFiles>>
    /\ UNCHANGED <<environ, verbose, cmdEnv, path, launched, executed, wHook, hookCommands, command, socketSet, metadata, localResponse, exitCode>>
    /\ UNCHANGED <<ivars, fvars, cvars, pvars, swvars>>

\* The wrapper directory of the session, as os.MkdirTemp names it.
WrapperDirName ==
    "/tmp/cmdhooks-wrappers-1"

\* Directories whose path contains the substring "cmdhooks-wrappers".
MarkedDirs ==
    {WrapperDirName, "/opt/cmdhooks-wrappers-old"}

\* strings.Contains(dir, "cmdhooks-wrappers")
ContainsMarker(dir) ==
    dir \in MarkedDirs

\* The executables of each directory: the wrapper directory has a script for
\* every name, /usr/bin has curl, the other marked directory has both.
HasExecutable(dir, name) ==
    \/ dir = WrapperDirName
    \/ dir = "/usr/bin" /\ name = "curl"
    \/ dir = "/opt/cmdhooks-wrappers-old" /\ name \in {"curl", "wget"}

\* Values of PATH in a wrapper process.
Paths ==
    {<<WrapperDirName, "/usr/bin">>,
     <<WrapperDirName, "/opt/cmdhooks-wrappers-old", "/usr/local/bin">>,
     <<"/usr/local/bin", WrapperDirName, "/usr/bin">>,
     <<"/usr/bin", WrapperDirName>>}

\* Variant: only the first entry of PATH is dropped.
getCleanPath_dropsFirstEntry(p) ==
    IF p = <<>> THEN <<>> ELSE Tail(p)

\* getCleanPath: the entries of PATH that do not contain the marker, in order.
getCleanPath(p) ==
    SelectSeq(p, LAMBDA dir : ~ContainsMarker(dir))

\* exec.LookPath for a plain name: the first directory of p with an executable
\* of that name, <<>> when there is none.
LookPath(p, name) ==
    LET hits == SelectSeq(p, LAMBDA dir : HasExecutable(dir, name))
    IN  IF hits = <<>> THEN <<>> ELSE <<hits[1]>>

\* os.Environ() of the wrapper process.
Environ ==
    [n \in {"HOME", "PATH"} |-> IF n = "PATH" THEN path ELSE <<"/home/u">>]

\* getCleanEnvironment(p): os.Environ() with the PATH entry replaced by p, or
\* with a PATH entry added when there is none.
getCleanEnvironment(p) ==
    [n \in DOMAIN Environ \cup {"PATH"} |-> IF n = "PATH" THEN p ELSE Environ[n]]

\* executeCommand, then the start of executePostRun.  Under pathMutex PATH is
\* set to the clean path, exec.LookPath runs, and PATH is set back.  A program
\* that is not found gives exit code 1 and no capture files; otherwise it is
\* started from the directory found, with the original PATH in its
\* environment, the two temp files exist and the exit code is the program's.
\* executePostRun writes the file names and the duration into Run's metadata
\* map.
executeCommand(found, code) ==
    /\ upc = "exec"
    /\ found \in BOOLEAN
    /\ code \in ExitCodes
    /\ LET cleanPath == getCleanPath(path)
           origPath == path
           realCmd == LookPath(cleanPath, command[1])
       IN  /\ path' = origPath
           /\ found = (realCmd # <<>>)
           /\ launched' = IF found
                             THEN <<[dir |-> realCmd[1], env |-> getCleanEnvironment(origPath)]>>
                             ELSE <<>>
    /\ IF found
         THEN /\ exitCode' = <<code>>
              /\ captureFiles' = "exist"
              /\ metadata' = Put(Put(Put(metadata, "stdout_file", "out"),
                                      "stderr_file", "err"), "execution_duration", "d")
         ELSE /\ code = 1
              /\ exitCode' = <<1>>
              /\ captureFiles' = captureFiles
              /\ metadata' = Put(metadata, "execution_duration", "d")
    /\ upc' = "post_local"
    /\ UNCHANGED <<environ, verbose, cmdEnv, executed, wHook, hookCommands, command, socketSet,
                   localResponse, evaluations, wstatus>>
    /\ UNCHANGED <<ivars, fvars, cvars, pvars, swvars>>

\* Variant: every non-zero exit code is relayed as 1.
RelayStatus_oneForFailure(code) ==
    IF code = 0 THEN 0 ELSE 1

\* outputResults: os.Exit(exitCode) for a non-zero code, else Run returns nil
\* and the process exits with 0.
RelayStatus(code) ==
    IF code # 0 THEN code ELSE 0

\* outputResults and the end of Run: os.Exit(exitCode) for a non-zero code,
\* which skips the deferred os.Remove calls; otherwise Run returns and they run.
RunOutput ==
    /\ upc = "output"
    /\ upc' = "exited"
    /\ wstatus' = <<RelayStatus(exitCode[1])>>
    /\ captureFiles' = IF exitCode[1] = 0 /\ captureFiles = "exist"
                          THEN "removed" ELSE captureFiles
    /\ UNCHANGED <<environ, verbose, cmdEnv, path, launched, executed, wHook, hookCommands, command, socketSet, metadata, localResponse,
                   evaluations, exitCode>>
    /\ UNCHANGED <<ivars, fvars, cvars, pvars, swvars>>

\* Executor.Execute's result for a child that exited with status rc: nil for
\* zero, else the error "execution exited with code rc", which execute wraps
\* as "execution failed: ...".
ExecuteError(rc) ==
    IF rc = 0 THEN <<>> ELSE <<rc>>

\* The root child exits with status rc after the wrapper it ran has exited,
\* no abort was asked for, and Execute returns.
ExecutorExecute(rc) ==
    /\ upc = "exited"
    /\ rc \in ExitCodes
    /\ upc' = "returned"
    /\ executed' = <<[status |-> rc, err |-> ExecuteError(rc)]>>
    /\ UNCHANGED <<environ, verbose, cmdEnv, path, launched, wHook, hookCommands, command, socketSet, metadata,
                   localResponse, evaluations, exitCode, captureFiles, wstatus>>
    /\ UNCHANGED <<ivars, fvars, cvars, pvars, swvars>>

\* A Run with any hook, command and socket setting.
InitRun ==
    /\ InitSession
    /\ wHook \in {"nil", "basic", "local"}
    /\ hookCommands \in SUBSET CommandNames
    /\ command \in Invocations
    /\ socketSet \in BOOLEAN
    /\ metadata = EmptyMap
    /\ upc = "idle"
    /\ localResponse = <<>>
    /\ evaluations = <<>>
    /\ exitCode = <<>>
    /\ captureFiles = "none"
    /\ wstatus = <<>>
    /\ executed = <<>>
    /\ path \in Paths
    /\ launched = <<>>
    /\ EnvironDefault

NextRun ==
    \/ RunStart
    \/ \E out \in LocalResults : evaluateLocalHook(out)
    \/ \E out \in RemoteResults : evaluateIPCHook(out)
    \/ \E found \in BOOLEAN : \E code \in ExitCodes : executeCommand(found, code)
    \/ RunOutput
    \/ \E rc \in ExitCodes : ExecutorExecute(rc)

SpecRun ==
    InitRun /\ [][NextRun]_vars

(***************************************************************************)
(* The root child and its process group                                    *)
(***************************************************************************)
\* The root command ends by itself.
rootExit(status) ==
    /\ rpc = "running"
    /\ status \in {"zero", "nonzero"}
    /\ rpc' = "exited"
    /\ rstatus' = status
    /\ UNCHANGED <<ivars, fvars, cvars, wvars>>

\* Processes of the group that can outlive a SIGTERM: 0 is the root child, i the
\* real program of invocation i.  Wrappers keep the default disposition.
TermCandidates ==
    (IF rpc = "running" THEN {0} ELSE {}) \cup {i \in Wrappers : real[i] = "running"}

\* A signal reaches every process of the group; those in surv survive it.
Signalled(surv) ==
    /\ rpc' = IF rpc = "running" /\ 0 \notin surv THEN "exited" ELSE rpc
    /\ rstatus' = IF rpc = "running" /\ 0 \notin surv THEN "signaled" ELSE rstatus
    /\ wpc' = [i \in Wrappers |-> IF WrapperAlive(i) THEN "killed" ELSE wpc[i]]
    /\ real' = [i \in Wrappers |->
                  IF real[i] = "running" /\ i \notin surv THEN "ended" ELSE real[i]]
    /\ realCode' = [i \in Wrappers |->
                  IF real[i] = "running" /\ i \notin surv THEN "nonzero" ELSE realCode[i]]
    /\ UNCHANGED <<wexit, pre, post, preEvals, postEvals, conns, relayed, uvars>>

\* Some process of the group runs.
GroupRunning ==
    \/ rpc = "running"
    \/ \E i \in Wrappers : WrapperAlive(i) \/ real[i] = "running"

\* kill(-pid) finds the group: the root child is not reaped yet, or a member runs.
GroupExists ==
    epc = "running" \/ GroupRunning

(***************************************************************************)
(* Executor.Execute in its goroutine                                       *)
(***************************************************************************)
\* The path of the interceptor's socket, given to executor.New.
SocketPathName ==
    "/tmp/cmdhooks-1.sock"

\* strings.HasPrefix(e, "PATH=")
HasPathPrefix(e) ==
    Len(e) >= 2 /\ e[1] = "PATH" /\ e[2] = "="

\* Variant: the wrapper directory is put behind the current PATH.
modifyPath_appendsWrapperDir(env) ==
    LET hits == {i \in 1..Len(env) : HasPathPrefix(env[i])}
    IN  IF hits = {}
          THEN Append(env, <<"PATH", "=", "/usr/bin", ":", "/bin", ":", "/usr/local/bin",
                             ":", WrapperDirName>>)
          ELSE LET i == CHOOSE j \in hits : \A k \in hits : j <= k
                   currentPath == SubSeq(env[i], 3, Len(env[i]))
               IN  [env EXCEPT ![i] = <<"PATH", "=">> \o currentPath \o <<":", WrapperDirName>>]

\* modifyPath: the first entry that starts with "PATH=" gets the wrapper
\* directory and ":" put before its value; without such an entry
\* "PATH=<wrapperPath>:/usr/bin:/bin:/usr/local/bin" is appended.
modifyPath(env) ==
    LET hits == {i \in 1..Len(env) : HasPathPrefix(env[i])}
    IN  IF hits = {}
          THEN Append(env, <<"PATH", "=", WrapperDirName, ":", "/usr/bin", ":", "/bin",
                             ":", "/usr/local/bin">>)
          ELSE LET i == CHOOSE j \in hits : \A k \in hits : j <= k
                   currentPath == SubSeq(env[i], 3, Len(env[i]))
               IN  [env EXCEPT ![i] = <<"PATH", "=", WrapperDirName, ":">> \o currentPath]

\* The environment Executor.Execute builds: os.Environ() through modifyPath,
\* then CMDHOOKS_SOCKET, then CMDHOOKS_VERBOSE when verbose.
BuildEnv ==
    LET env == Append(modifyPath(environ), <<"CMDHOOKS_SOCKET", "=", SocketPathName>>)
    IN  IF verbose THEN Append(env, <<"CMDHOOKS_VERBOSE", "=", "true">>) ELSE env

\* The value the started program sees for key in cmd.Env: of several entries
\* of one key the last one counts; <<>> when there is no entry.
Getenv(env, key) ==
    LET hits == {i \in 1..Len(env) : Len(env[i]) >= 2 /\ env[i][1] = key /\ env[i][2] = "="}
    IN  IF hits = {}
          THEN <<>>
          ELSE LET i == CHOOSE j \in hits : \A k \in hits : k <= j
               IN  <<SubSeq(env[i], 3, Len(env[i]))>>

\* cmd.Env is built, s.process = cmd, then cmd.Run starts the root child in a
\* new process group.
cmdStart(ok) ==
    /\ Alive
    /\ epc = "spawned"
    /\ cmdEnv' = BuildEnv
    /\ IF ok
         THEN /\ epc' = "running"
              /\ rpc' = "running"
              /\ runErr' = runErr
         ELSE /\ epc' = "ran"
              /\ rpc' = rpc
              /\ runErr' = "start"
    /\ UNCHANGED <<cpc, result, abortAtReturn, sigterm, sigkill, rstatus>>
    /\ UNCHANGED <<ivars, fvars, swvars>>
    /\ UNCHANGED <<wHook, hookCommands, command, socketSet, metadata, upc, localResponse,
                   evaluations, exitCode, captureFiles, wstatus, executed, path, launched,
                   environ, verbose>>

\* cmd.Run returns after the root child has exited and was reaped.
cmdWait ==
    /\ Alive
    /\ epc = "running"
    /\ rpc = "exited"
    /\ epc' = "ran"
    /\ runErr' = IF rstatus = "zero" THEN "nil" ELSE "exit"
    /\ UNCHANGED <<cpc, result, abortAtReturn, sigterm, sigkill>>
    /\ UNCHANGED <<ivars, fvars, pvars, wvars>>

\* s.process = nil, the error is returned and sent on execDone.
execFinish ==
    /\ Alive
    /\ epc = "ran"
    /\ epc' = "done"
    /\ UNCHANGED <<cpc, result, abortAtReturn, runErr, sigterm, sigkill>>
    /\ UNCHANGED <<ivars, fvars, pvars, wvars>>

(***************************************************************************)
(* Controller: CmdHooks.Execute and execute                                *)
(***************************************************************************)
\* createWrappers: one script per name of c.hook.Commands(), written with
\* mode 0600 and then made executable with Chmod 0700; no file for an empty
\* list.
createWrappers ==
    [n \in ctlCommands |-> "0700"]

\* Execute up to the select of execute: setupExecutor starts the interceptor,
\* execute spawns the goroutine that runs Executor.Execute.
Execute ==
    /\ cpc = "new"
    /\ InterceptorStart
    /\ wrapperDir' = "present"
    /\ wrapperFiles' = createWrappers
    /\ epc' = "spawned"
    /\ cpc' = "select"
    /\ UNCHANGED <<hookKind, exitSignal, stop, acceptErrs, crash,
                   hpc, line, evalOut, resp, wire, writes, exitEval, raised, deadline>>
    /\ UNCHANGED <<tvars, idleStops, closeRet, ctlCommands>>
    /\ UNCHANGED <<result, abortAtReturn, runErr, sigterm, sigkill>>
    /\ UNCHANGED <<pvars, wvars>>

\* Variant: the error received from execDone is dropped.
selectDone_errorDropped ==
    /\ Alive
    /\ cpc = "select"
    /\ epc = "done"
    /\ result' = "ok"
    /\ abortAtReturn' = exitSignal
    /\ cpc' = "returned"
    /\ UNCHANGED <<epc, runErr, sigterm, sigkill>>
    /\ UNCHANGED <<ivars, fvars, pvars, wvars>>

\* Variant: Execute fails when a wrapper of the session was denied.
selectDone_failsOnDeniedCommand ==
    /\ Alive
    /\ cpc = "select"
    /\ epc = "done"
    /\ result' = IF runErr = "nil" /\ \A i \in Wrappers : wexit[i] # "fail"
                   THEN "ok" ELSE "failed"
    /\ abortAtReturn' = exitSignal
    /\ cpc' = "returned"
    /\ UNCHANGED <<epc, runErr, sigterm, sigkill>>
    /\ UNCHANGED <<ivars, fvars, pvars, wvars>>

\* select, case err := <-execDone.
selectDone ==
    /\ Alive
    /\ cpc = "select"
    /\ epc = "done"
    /\ result' = IF runErr = "nil" THEN "ok" ELSE "failed"
    /\ abortAtReturn' = exitSignal
    /\ cpc' = "returned"
    /\ UNCHANGED <<epc, runErr, sigterm, sigkill>>
    /\ UNCHANGED <<ivars, fvars, pvars, wvars>>

\* Variant: the signal is a value sent on the channel, which the receive of the
\* first observer consumes.
selectExit_consumes ==
    /\ Alive
    /\ cpc = "select"
    /\ exitSignal
    /\ exitSignal' = FALSE
    /\ cpc' = "kill"
    /\ UNCHANGED <<hookKind, stop, listener, lpc, acceptErrs, crash,
                   hpc, line, evalOut, resp, wire, writes, exitEval, raised, deadline>>
    /\ UNCHANGED <<tvars, fvars>>
    /\ UNCHANGED <<result, abortAtReturn, epc, runErr, sigterm, sigkill>>
    /\ UNCHANGED <<pvars, wvars>>

\* select, case <-c.interceptor.ExitSignal().
selectExit ==
    /\ Alive
    /\ cpc = "select"
    /\ exitSignal
    /\ cpc' = "kill"
    /\ UNCHANGED <<result, abortAtReturn, epc, runErr, sigterm, sigkill>>
    /\ UNCHANGED <<ivars, fvars, pvars, wvars>>

\* Variant: KillProcessTree starts with SIGKILL.
killTerm_killsAtOnce(surv) ==
    /\ Alive
    /\ cpc = "kill"
    /\ IF epc \in {"running", "ran"} /\ GroupExists
         THEN /\ surv = {}
              /\ sigkill' = TRUE
              /\ Signalled({})
              /\ cpc' = "kill_wait2"
         ELSE /\ surv = {}
              /\ cpc' = "wait_done"
              /\ UNCHANGED <<sigkill, pvars, wvars>>
    /\ UNCHANGED <<result, abortAtReturn, epc, runErr, sigterm>>
    /\ UNCHANGED <<ivars, fvars>>

\* KillProcessTree up to its first select: nothing to do when s.process or its
\* Process is nil; otherwise SIGTERM to the group, and Process.Kill when that
\* fails.
killTerm(surv) ==
    /\ Alive
    /\ cpc = "kill"
    /\ IF epc \in {"running", "ran"} /\ GroupExists
         THEN /\ surv \subseteq TermCandidates
              /\ sigterm' = TRUE
              /\ Signalled(surv)
              /\ cpc' = "kill_wait"
         ELSE /\ surv = {}
              /\ cpc' = "wait_done"
              /\ UNCHANGED <<sigterm, pvars, wvars>>
    /\ UNCHANGED <<result, abortAtReturn, epc, runErr, sigkill>>
    /\ UNCHANGED <<ivars, fvars>>

\* KillProcessTree: process.Wait returned within the grace period.
killGraceful ==
    /\ Alive
    /\ cpc = "kill_wait"
    /\ rpc = "exited"
    /\ cpc' = "wait_done"
    /\ UNCHANGED <<result, abortAtReturn, epc, runErr, sigterm, sigkill>>
    /\ UNCHANGED <<ivars, fvars, pvars, wvars>>

\* KillProcessTree: the 5 s timer fired; SIGKILL to the group, and Process.Kill
\* when that fails.
killForce ==
    /\ Alive
    /\ cpc = "kill_wait"
    /\ IF GroupExists
         THEN /\ sigkill' = TRUE
              /\ Signalled({})
              /\ cpc' = "kill_wait2"
         ELSE /\ cpc' = "wait_done"
              /\ UNCHANGED <<sigkill, pvars, wvars>>
    /\ UNCHANGED <<result, abortAtReturn, epc, runErr, sigterm>>
    /\ UNCHANGED <<ivars, fvars>>

\* KillProcessTree after SIGKILL: process.Wait returned, or the 2 s timer fired.
killForced ==
    /\ Alive
    /\ cpc = "kill_wait2"
    /\ cpc' = "wait_done"
    /\ UNCHANGED <<result, abortAtReturn, epc, runErr, sigterm, sigkill>>
    /\ UNCHANGED <<ivars, fvars, pvars, wvars>>

\* execute after KillProcessTree: execDone was received or the 5 s timer fired;
\* it returns "execution terminated by user request".
executeTerminated ==
    /\ Alive
    /\ cpc = "wait_done"
    /\ result' = "terminated"
    /\ abortAtReturn' = exitSignal
    /\ cpc' = "returned"
    /\ UNCHANGED <<epc, runErr, sigterm, sigkill>>
    /\ UNCHANGED <<ivars, fvars, pvars, wvars>>

(***************************************************************************)
(* The controller over its life: further Execute calls, SetHook, Close     *)
(***************************************************************************)
\* A later Execute on the same controller, up to the select of execute.  The
\* model follows one executor goroutine, so the call waits for the goroutine
\* of the previous session; a wrapper directory that could not be removed stays
\* beside the new one.
ExecuteAgain ==
    /\ Alive
    /\ cpc = "closed"
    /\ epc \in {"none", "done"}
    /\ InterceptorStart
    /\ wrapperDir' = IF wrapperDir = "stuck" THEN "stuck" ELSE "present"
    /\ wrapperFiles' = createWrappers
    /\ closeRet' = <<>>
    /\ epc' = "spawned"
    /\ cpc' = "select"
    /\ result' = "none"
    /\ abortAtReturn' = FALSE
    /\ runErr' = "none"
    /\ sigterm' = FALSE
    /\ sigkill' = FALSE
    /\ rpc' = "none"
    /\ rstatus' = "none"
    /\ exitEval' = FALSE
    /\ raised' = FALSE
    /\ UNCHANGED <<hookKind, exitSignal, stop, acceptErrs, crash,
                   hpc, line, evalOut, resp, wire, writes, deadline>>
    /\ UNCHANGED <<tvars, idleStops, ctlCommands>>
    /\ UNCHANGED wvars

\* Execute whose createWrappers fails after the interceptor started: the
\* temporary directory is removed again and setupExecutor goes on to
\* c.interceptor.Stop() before it returns the error.
ExecuteSetupFails ==
    /\ Alive
    /\ cpc \in {"new", "closed"}
    /\ epc \in {"none", "done"}
    /\ InterceptorStart
    /\ closeRet' = <<>>
    /\ cpc' = "returned"
    /\ result' = "setup_failed"
    /\ abortAtReturn' = exitSignal
    /\ UNCHANGED <<hookKind, exitSignal, stop, acceptErrs, crash,
                   hpc, line, evalOut, resp, wire, writes, exitEval, raised, deadline>>
    /\ UNCHANGED <<tvars, wrapperDir, idleStops, ctlCommands, wrapperFiles>>
    /\ UNCHANGED <<epc, runErr, sigterm, sigkill>>
    /\ UNCHANGED <<pvars, wvars>>

\* Variant: the command is validated after setupExecutor.
ExecuteEmptyCommand_afterSetup ==
    /\ Alive
    /\ cpc \in {"new", "closed"}
    /\ epc \in {"none", "done"}
    /\ InterceptorStart
    /\ wrapperDir' = "present"
    /\ wrapperFiles' = createWrappers
    /\ result' = "rejected"
    /\ UNCHANGED <<hookKind, exitSignal, stop, acceptErrs, crash,
                   hpc, line, evalOut, resp, wire, writes, exitEval, raised, deadline>>
    /\ UNCHANGED <<tvars, idleStops, closeRet, ctlCommands>>
    /\ UNCHANGED <<cpc, abortAtReturn, epc, runErr, sigterm, sigkill>>
    /\ UNCHANGED <<pvars, wvars>>

\* Execute(cmd) with len(cmd) = 0: validateCommand fails and Execute returns
\* "command cannot be empty" before setupExecutor.
ExecuteEmptyCommand ==
    /\ Alive
    /\ cpc \in {"new", "closed"}
    /\ epc \in {"none", "done"}
    /\ result' = "rejected"
    /\ UNCHANGED <<cpc, abortAtReturn, epc, runErr, sigterm, sigkill>>
    /\ UNCHANGED <<ivars, fvars, pvars, wvars>>

\* CmdHooks.SetHook / Interceptor.SetHook: the hook is replaced by one of the
\* other capability.
SetHook(k) ==
    /\ Alive
    /\ k \in {"ipc", "basic"}
    /\ hookKind # k
    /\ hookKind' = k
    /\ UNCHANGED <<exitSignal, stop, listener, lpc, acceptErrs, crash,
                   hpc, line, evalOut, resp, wire, writes, exitEval, raised, deadline>>
    /\ UNCHANGED <<tvars, fvars>>
    /\ UNCHANGED <<cvars, pvars, wvars>>

\* Interceptor.SetHook(k) while handler c executes the type switch on i.hook.
\* The field is an interface value of two words, written and read without a
\* lock or an atomic: the handler's read returns the old value, the new value,
\* or the type word of one with the data word of the other, on which the
\* method call faults.
SetHookDuringRead(c, k, seen, out) ==
    /\ Alive
    /\ hpc[c] = "eval"
    /\ k \in {"ipc", "basic"}
    /\ hookKind # k
    /\ hookKind' = k
    /\ seen \in {"old", "new", "torn"}
    /\ IF seen = "torn"
         THEN /\ out = "torn"
              /\ evalOut' = [evalOut EXCEPT ![c] = "torn"]
              /\ crash' = "torn_hook"
              /\ UNCHANGED <<hpc, resp, exitEval, raised, deadline>>
         ELSE /\ out \in HookOutcomes(IF seen = "old" THEN hookKind ELSE k)
              /\ evalOut' = [evalOut EXCEPT ![c] = out]
              /\ exitEval' = (exitEval \/ out = "exit")
              /\ raised' = raised
              /\ deadline' = [deadline EXCEPT ![c] = EvaluationTimeout]
              /\ IF EvalResponse(out) = "nil"
                   THEN /\ crash' = "nil_deref"
                        /\ UNCHANGED <<hpc, resp>>
                   ELSE /\ crash' = crash
                        /\ resp' = [resp EXCEPT ![c] = ExitOnly(EvalResponse(out))]
                        /\ hpc' = [hpc EXCEPT ![c] =
                                     IF EvalResponse(out) = "exit" /\ ~exitSignal
                                       THEN "closing" ELSE "write"]
    /\ UNCHANGED <<exitSignal, stop, listener, lpc, acceptErrs, line, wire, writes>>
    /\ UNCHANGED <<tvars, fvars>>
    /\ UNCHANGED <<cvars, pvars, wvars>>

\* Names a hook given to SetHook can list.
WrapperNames ==
    {"curl", "git"}

\* CmdHooks.SetHook with a hook of the same capability and another commands
\* list: c.hook, c.config.Hook and the interceptor's hook are replaced, the
\* wrapper directory is not touched.
SetHookCommands(cs) ==
    /\ Alive
    /\ cs \in SUBSET WrapperNames
    /\ cs # ctlCommands
    /\ ctlCommands' = cs
    /\ UNCHANGED <<socketFile, wrapperDir, starts, idleStops, closeRet, wrapperFiles>>
    /\ UNCHANGED <<ivars, cvars, pvars, wvars>>

\* The environment makes a file of the session impossible to remove (a system
\* file appears in the wrapper directory, permissions of the parent change).
RemovalBlocked(f) ==
    /\ f \in {"socket", "wrappers"}
    /\ IF f = "socket"
         THEN /\ socketFile = "present"
              /\ socketFile' = "stuck"
              /\ wrapperDir' = wrapperDir
         ELSE /\ wrapperDir = "present"
              /\ wrapperDir' = "stuck"
              /\ socketFile' = socketFile
    /\ UNCHANGED <<starts, idleStops, closeRet, ctlCommands, wrapperFiles>>
    /\ UNCHANGED <<ivars, cvars, pvars, wvars>>

\* Variant: Close returns the error of Executor.Cleanup's os.RemoveAll.
Close_cleanupErrorReturned ==
    /\ Alive
    /\ cpc \in {"new", "closed"}
    /\ Len(closeRet) < MaxCloses
    /\ lpc \in {"none", "exited"} \/ stop
    /\ stop' = TRUE
    /\ wrapperDir' = IF starts > 0 THEN Removed(wrapperDir) ELSE wrapperDir
    /\ socketFile' = Removed(socketFile)
    /\ closeRet' = Append(closeRet,
                          IF starts > 0 /\ wrapperDir = "stuck" THEN "error" ELSE "nil")
    /\ cpc' = "closed"
    /\ UNCHANGED <<hookKind, exitSignal, listener, lpc, acceptErrs, crash,
                   hpc, line, evalOut, resp, wire, writes, exitEval, raised, deadline>>
    /\ UNCHANGED <<tvars, starts, idleStops, ctlCommands, wrapperFiles>>
    /\ UNCHANGED <<result, abortAtReturn, epc, runErr, sigterm, sigkill>>
    /\ UNCHANGED <<pvars, wvars>>

\* Variant: Close leaves the socket file to Interceptor.Stop.
Close_socketLeftToStop ==
    /\ Alive
    /\ cpc \in {"new", "closed"}
    /\ Len(closeRet) < MaxCloses
    /\ lpc \in {"none", "exited"} \/ stop
    /\ stop' = TRUE
    /\ wrapperDir' = IF starts > 0 THEN Removed(wrapperDir) ELSE wrapperDir
    /\ socketFile' = IF stop THEN socketFile ELSE Removed(socketFile)
    /\ closeRet' = Append(closeRet, "nil")
    /\ cpc' = "closed"
    /\ UNCHANGED <<hookKind, exitSignal, listener, lpc, acceptErrs, crash,
                   hpc, line, evalOut, resp, wire, writes, exitEval, raised, deadline>>
    /\ UNCHANGED <<tvars, starts, idleStops, ctlCommands, wrapperFiles>>
    /\ UNCHANGED <<result, abortAtReturn, epc, runErr, sigterm, sigkill>>
    /\ UNCHANGED <<pvars, wvars>>

\* CmdHooks.Close, called between Execute calls.  Interceptor.Stop returns at
\* once when the stop channel is closed; otherwise no Start has succeeded, the
\* listener is nil and nothing is waited for.  Executor.Cleanup runs when an
\* executor exists and swallows the error of os.RemoveAll; the error of
\* os.Remove(c.config.SocketPath) is dropped; Close returns nil.
Close ==
    /\ Alive
    /\ cpc \in {"new", "closed"}
    /\ Len(closeRet) < MaxCloses
    /\ lpc \in {"none", "exited"} \/ stop
    /\ stop' = TRUE
    /\ wrapperDir' = IF starts > 0 THEN Removed(wrapperDir) ELSE wrapperDir
    /\ socketFile' = Removed(socketFile)
    /\ closeRet' = Append(closeRet, "nil")
    /\ cpc' = "closed"
    /\ UNCHANGED <<hookKind, exitSignal, listener, lpc, acceptErrs, crash,
                   hpc, line, evalOut, resp, wire, writes, exitEval, raised, deadline>>
    /\ UNCHANGED <<tvars, starts, idleStops, ctlCommands, wrapperFiles>>
    /\ UNCHANGED <<result, abortAtReturn, epc, runErr, sigterm, sigkill>>
    /\ UNCHANGED <<pvars, wvars>>

\* Steps of the interceptor's own goroutines.
HandlerStep ==
    \/ listenCheck
    \/ AcceptClosed
    \/ \E c \in Wrappers : Accept(c)
    \/ \E c \in Wrappers : readRequest(c)
    \/ \E c \in Wrappers : \E out \in {"allow", "exit", "error", "nil", "default"} :
          processRequest(c, out)
    \/ \E c \in Wrappers : closeExitSignal(c)
    \/ \E c \in Wrappers : \E ok \in BOOLEAN : writeResponse(c, ok)

StopStep ==
    \/ StopCloseStop
    \/ StopCloseListener
    \/ StopReturn

\* The interceptor driven by arbitrary clients of its socket.
NextInterceptor ==
    \/ IStart
    \/ \E c \in Wrappers : ClientConnect(c)
    \/ \E c \in Wrappers : \E l \in ClientLines : ClientSend(c, l)
    \/ \E c \in Wrappers : ClientClose(c)
    \/ HandlerStep
    \/ AcceptError
    \/ StopStep
    \/ StopIdle

SpecInterceptor ==
    Init /\ [][NextInterceptor]_vars

\* The steps of the goroutine that handles connection c.
handleConnection(c) ==
    \/ readRequest(c)
    \/ \E out \in {"allow", "exit", "error", "nil", "default"} : processRequest(c, out)
    \/ closeExitSignal(c)
    \/ \E ok \in BOOLEAN : writeResponse(c, ok)

\* The steps of the listen goroutine.
listen ==
    \/ listenCheck
    \/ AcceptClosed
    \/ \E c \in Wrappers : Accept(c)

\* The interceptor with its goroutines scheduled fairly: the listen loop, every
\* handler (a hook evaluation that has started returns) and the caller of Stop
\* take the steps they can take.  Clients are under no obligation to send or
\* to close.
SpecStopFair ==
    /\ SpecInterceptor
    /\ WF_vars(listen)
    /\ WF_vars(StopStep)
    /\ \A c \in Wrappers : WF_vars(handleConnection(c))

\* The interceptor with its owner also reconfiguring the evaluation timeout.
NextTimeout ==
    \/ NextInterceptor
    \/ \E d \in Timeouts : SetEvaluateTimeout(d)

SpecTimeout ==
    Init /\ [][NextTimeout]_vars

\* The interceptor with its owner replacing the hook, between or during the
\* handlers' reads of it.
NextSetHook ==
    \/ NextInterceptor
    \/ \E k \in {"ipc", "basic"} : SetHook(k)
    \/ \E c \in Wrappers : \E k \in {"ipc", "basic"} :
         \E seen \in {"old", "new", "torn"} :
           \E out \in HookOutcomes("ipc") \cup HookOutcomes("basic") \cup {"torn"} :
             SetHookDuringRead(c, k, seen, out)

SpecSetHook ==
    Init /\ [][NextSetHook]_vars

\* The interceptor with a hook whose remote evaluation can return metadata.
NextMetadata ==
    \/ NextInterceptor
    \/ \E c \in Wrappers : processRequest(c, "allow_md")

SpecMetadata ==
    Init /\ [][NextMetadata]_vars

\* The life of one controller: Execute calls on a root command that invokes no
\* monitored command (requests come from one other client of the socket),
\* SetHook, Close, and files that resist removal.
NextLifecycle ==
    \/ Execute
    \/ ExecuteAgain
    \/ ExecuteSetupFails
    \/ \E ok \in BOOLEAN : cmdStart(ok)
    \/ cmdWait
    \/ execFinish
    \/ selectDone
    \/ selectExit
    \/ \E surv \in SUBSET {0} : killTerm(surv)
    \/ killGraceful
    \/ killForce
    \/ killForced
    \/ executeTerminated
    \/ StopStep
    \/ HandlerStep
    \/ \E status \in {"zero", "nonzero"} : rootExit(status)
    \/ ClientConnect(1)
    \/ \E l \in ClientLines : ClientSend(1, l)
    \/ ClientClose(1)
    \/ \E k \in {"ipc", "basic"} : SetHook(k)
    \/ \E f \in {"socket", "wrappers"} : RemovalBlocked(f)
    \/ Close

SpecLifecycle ==
    Init /\ [][NextLifecycle]_vars

\* The controller also called with an empty command.
NextValidate ==
    \/ NextLifecycle
    \/ ExecuteEmptyCommand

SpecValidate ==
    Init /\ [][NextValidate]_vars

\* The controller with hooks of different commands lists given to SetHook.
NextWrappers ==
    \/ NextLifecycle
    \/ \E cs \in SUBSET WrapperNames : SetHookCommands(cs)

SpecWrappers ==
    Init /\ [][NextWrappers]_vars

\* The environments a controller can be started in: with and without PATH,
\* with an empty PATH, with a variable whose name starts with PATH, with a
\* CMDHOOKS_SOCKET of an outer session, PATH first or last.
ParentEnvs ==
    LET paths  == {<<>>, << <<"PATH", "=">> >>, << <<"PATH", "=", "/usr/bin">> >>,
                   << <<"PATH", "=", "/usr/bin", ":", "/bin">> >>}
        others == {<<>>, <<HomeEntry>>, << <<"PATHX", "=", "1">>, HomeEntry>>,
                   << <<"CMDHOOKS_SOCKET", "=", "/tmp/cmdhooks-0.sock">>, HomeEntry>>}
    IN  {o \o q : o \in others, q \in paths} \cup {q \o o : o \in others, q \in paths}

InitEnv ==
    /\ InitSession
    /\ RunNotStarted
    /\ environ \in ParentEnvs
    /\ verbose \in BOOLEAN
    /\ cmdEnv = <<>>

\* One Execute of a root command that invokes no monitored command, by a
\* controller started in any environment.
NextEnv ==
    \/ Execute
    \/ \E ok \in BOOLEAN : cmdStart(ok)
    \/ cmdWait
    \/ execFinish
    \/ selectDone
    \/ StopStep
    \/ listenCheck
    \/ AcceptClosed
    \/ \E status \in {"zero", "nonzero"} : rootExit(status)

SpecEnv ==
    InitEnv /\ [][NextEnv]_vars

\* One session: Execute with the wrappers of its process tree.
Next ==
    \/ Execute
    \/ \E ok \in BOOLEAN : cmdStart(ok)
    \/ cmdWait
    \/ execFinish
    \/ selectDone
    \/ selectExit
    \/ \E surv \in SUBSET ({0} \cup Wrappers) : killTerm(surv)
    \/ killGraceful
    \/ killForce
    \/ killForced
    \/ executeTerminated
    \/ StopStep
    \/ HandlerStep
    \/ \E status \in {"zero", "nonzero"} : rootExit(status)
    \/ \E i \in Wrappers : Invoke(i)
    \/ \E i \in Wrappers : \E lo \in LocalOutcomes : \E l \in WrapperLines :
          executePreRun(i, lo, l)
    \/ \E i \in Wrappers : \E found \in BOOLEAN : preRunResult(i, found)
    \/ \E i \in Wrappers : \E code \in {"zero", "nonzero"} : realExit(i, code)
    \/ \E i \in Wrappers : \E lo \in LocalOutcomes : \E l \in WrapperLines :
          executePostRun(i, lo, l)
    \/ \E i \in Wrappers : postRunResult(i)
    \/ \E i \in Wrappers : outputResults(i)

Spec ==
    Init /\ [][Next]_vars

(***************************************************************************)
(* Properties                                                              *)
(***************************************************************************)
\* execute has returned: the value Execute returns is fixed.
Returned ==
    result # "none"

\* Execute has returned to its caller: its deferred cleanup has run.
ExecuteReturned ==
    cpc = "closed" /\ result # "none"

\* Some evaluation, local or remote, answered Exit: true.
ExitAnswered ==
    \/ exitEval
    \/ \E i \in Wrappers : pre[i] = "local_exit" \/ post[i] = "local_exit"

\* The connection of slot c was accepted and is closed again: its handler
\* returned, or the controller process died under it.
ConnClosed(c) ==
    \/ hpc[c] = "done"
    \/ ~Alive /\ hpc[c] \in {"reading", "eval", "closing", "write"}

\* C1: once a hook evaluation in the interceptor returned exit=true, the
\* controller sends SIGTERM to the root child's process group: it cannot have
\* finished (returned from Execute, or died) with the root child still running
\* and no SIGTERM sent.
C1_ExitEvalSendsSigterm ==
    (exitEval /\ rpc = "running" /\ (Returned \/ ~Alive)) => sigterm

C3_TerminatedGroupGone ==
    (ExecuteReturned /\ result = "terminated") => ~GroupRunning

C5_PreRunDenyStopsWrapper ==
    \A i \in Wrappers : pre[i] \in {"local_exit", "remote_exit", "error"} =>
        /\ real[i] = "none" /\ realCode[i] = "none"
        /\ postEvals[i] = 0 /\ post[i] = "none"
        /\ ~relayed[i]
        /\ wpc[i] = "exited" /\ wexit[i] = "fail"

\* C5 witness: one wrapper was denied by the remote stage and another failed
\* its pre-run evaluation.
C5_DeniedAndFailed ==
    \E i, j \in Wrappers :
        /\ pre[i] = "remote_exit" /\ wpc[i] = "exited"
        /\ pre[j] = "error" /\ wpc[j] = "exited"

\* C6: for every invocation whose real program runs, exactly one pre-run
\* evaluation completed before the program started; a post-run evaluation is
\* made only after the program ended; and when the output is relayed or the
\* wrapper exits after the program ended, exactly one post-run evaluation has
\* completed.
C6_OnePreOnePost ==
    \A i \in Wrappers :
        /\ preEvals[i] <= 1 /\ postEvals[i] <= 1
        /\ real[i] \in {"running", "ended"} => preEvals[i] = 1 /\ pre[i] = "allow"
        /\ (postEvals[i] > 0 \/ wpc[i] \in {"post", "post_ipc", "output"})
              => real[i] \in {"ended", "notfound"}
        /\ (real[i] = "ended" /\ (relayed[i] \/ wpc[i] \in {"output", "exited"}))
              => postEvals[i] = 1

\* C6 witness: a real program ran to completion, both evaluations completed,
\* the output was relayed and the wrapper exited.
C6_RanAndRelayed ==
    \E i \in Wrappers :
        /\ real[i] = "ended" /\ relayed[i] /\ wpc[i] = "exited"
        /\ preEvals[i] = 1 /\ postEvals[i] = 1

\* C7: every accepted connection has exactly one response written to it by
\* its handler before it is closed.
C7_OneResponsePerConnection ==
    \A c \in Wrappers : ConnClosed(c) => writes[c] = 1

\* C8: a request that cannot be read (end of input, over the size limit, not
\* valid JSON) and a request whose remote evaluation returned an error are
\* answered with exit=true: when the connection is closed its handler has
\* written one response, and that response has Exit set.
C8_ErrorsAnswerExit ==
    \A c \in Wrappers :
        (/\ ConnClosed(c)
         /\ line[c] \in {"eof", "toolong", "badjson"} \/ evalOut[c] = "error")
        => (writes[c] = 1 /\ resp[c] = "exit")

\* C9: no evaluation outcome and no accept, read or write error crashes the
\* controller process or ends the accept loop while no stop is pending.
C9_NoCrashNoLoopExit ==
    /\ crash = "none"
    /\ lpc = "exited" => stop

\* C10: raising the abort signal is idempotent under concurrency: no handler
\* fails by closing the already closed channel.
C10_NoDoubleClose ==
    crash # "double_close"

\* C11: the abort signal is not raised when the interceptor is created; once
\* raised it is raised in every later state; and an observer that saw it (the
\* controller on its abort branch) still finds it raised.
C11_ExitSignalMonotonic ==
    /\ ~exitSignal
    /\ [][exitSignal => exitSignal']_vars
    /\ [](cpc \in {"kill", "kill_wait", "kill_wait2", "wait_done"} => exitSignal)
    /\ [](result = "terminated" => exitSignal)

\* C11 witness: a handler raised the signal and the controller, looking later,
\* saw it and is on its abort branch.
C11_RaisedAndObserved ==
    exitSignal /\ exitEval /\ cpc = "kill"

C13_ErrorsDoNotAbort ==
    ~exitEval => (~exitSignal /\ ~sigterm /\ ~sigkill)

\* C14: when the configured timeout is zero or negative the context of a remote
\* evaluation has no deadline; with a positive timeout the deadline is that
\* value, and ten minutes when no timeout was configured.
C14_NonPositiveDisablesDeadline ==
    [][\A c \in Wrappers :
          (hpc[c] = "eval" /\ evalOut'[c] # "none") =>
              deadline'[c] = (CASE cfgTimeout = <<>> -> DefaultEvaluateTimeout
                                [] cfgTimeout # <<>> /\ cfgTimeout[1] <= 0 -> 0
                                [] OTHER -> cfgTimeout[1])]_vars

\* C15: Stop is idempotent and safe without Start.  A Stop called after a Stop
\* has closed the stop channel returns at once: it changes nothing of the
\* interceptor or of the files and the process does not panic.  A Stop on an
\* interceptor that was never started finds a nil listener, does not touch it,
\* has nothing to wait for and returns without a panic.
C15_StopIdempotent ==
    /\ [][(stop /\ idleStops' # idleStops) =>
            /\ UNCHANGED <<ivars, socketFile, wrapperDir, starts>>
            /\ cpc' = "closed"]_vars
    /\ [][(starts = 0 /\ cpc \in {"new", "stop1", "stopping"} /\ cpc' # cpc /\ starts' = 0) =>
            /\ crash' = "none"
            /\ listener' = "nil"
            /\ socketFile' = "absent"]_vars
    /\ []((starts = 0 /\ cpc = "stopping") =>
            (Alive /\ lpc = "none" /\ HandlersRunning = {}))

\* A started interceptor was stopped and Stop was called once more.
C15_StoppedTwice ==
    /\ starts = 1
    /\ idleStops = 1
    /\ cpc = "closed"
    /\ listener = "closed"
    /\ Alive

\* C16: when Stop has returned after a successful Start, the accept loop has
\* exited, no connection handler is still reading, evaluating or writing, and
\* the endpoint file is removed.
C16_StopLeavesNothingRunning ==
    (cpc = "closed" /\ starts > 0 /\ Alive) =>
        /\ lpc = "exited"
        /\ HandlersRunning = {}
        /\ socketFile = "absent"

\* C17: once Stop has closed the stop channel the accept loop accepts no
\* further connection and starts no new handler, whatever the interleaving of
\* Stop with the loop.
C17_NoAcceptAfterStop ==
    [][stop => \A c \in Wrappers : hpc[c] = "queued" => hpc'[c] # "reading"]_vars

\* C18: Close is idempotent.  A Close that follows a Close changes nothing of
\* the interceptor, the files, the controller or the processes, the process
\* does not panic, and every Close returns nil, also when no Execute was called
\* and when the wrapper directory or the endpoint file cannot be removed.
C18_CloseIdempotent ==
    /\ [][(Len(closeRet) > 0 /\ Len(closeRet') > Len(closeRet)) =>
            /\ UNCHANGED <<ivars, socketFile, wrapperDir, starts, cvars, pvars, wvars>>
            /\ crash' = "none"]_vars
    /\ [](\A n \in 1..Len(closeRet) : closeRet[n] = "nil")

\* Close was called twice in a row after an Execute that left both files
\* impossible to remove.
C18_ClosedTwice ==
    /\ Len(closeRet) = 2
    /\ starts > 0
    /\ result # "none"
    /\ wrapperDir = "stuck"
    /\ socketFile = "stuck"

\* C19 as stated: after any sequence of Execute and SetHook calls followed by
\* Close, neither the endpoint file nor the wrapper directory exists.
C19_NothingLeftAfterClose ==
    Len(closeRet) > 0 => (socketFile = "absent" /\ wrapperDir = "absent")

\* C19 amended: after such a sequence followed by Close, the endpoint file and
\* the wrapper directory exist only if they could not be removed (Close and the
\* teardown of Execute swallow that failure).
C19_OnlyUnremovableLeftAfterClose ==
    Len(closeRet) > 0 => (socketFile # "present" /\ wrapperDir # "present")

\* Two Execute calls, the second aborted, a SetHook after the evaluation that
\* asked for the abort, then Close: both files are gone.
C19_ClosedAfterTwoSessions ==
    /\ Len(closeRet) = 1
    /\ starts = 2
    /\ result = "terminated"
    /\ exitSignal
    /\ hookKind = "basic"
    /\ socketFile = "absent"
    /\ wrapperDir = "absent"

\* C20: the response line the interceptor writes carries the metadata mapping
\* that the hook's remote evaluation returned.
C20_MetadataOnTheWire ==
    \A c \in Wrappers :
        (evalOut[c] = "allow_md" /\ hpc[c] = "done" /\ Len(wire[c]) > 0) =>
            UnmarshalMetadata(wire[c][1])

\* C21: the metadata of the request sent to the interceptor is the union of
\* the incoming metadata and the local response's metadata: a key of the
\* local response carries the local value, a key of the incoming metadata
\* alone carries the incoming value, there is no other key, and the incoming
\* map is not changed by the evaluation.
C21_MergedMetadata ==
    /\ [](\A i \in 1..Len(evaluations) :
             LET e == evaluations[i]
                 l == IF e.lresp = <<>> THEN EmptyMap ELSE e.lresp[1].md
             IN  e.remote =>
                   /\ DOMAIN e.sent = DOMAIN e.incoming \cup DOMAIN l
                   /\ \A k \in DOMAIN l : e.sent[k] = l[k]
                   /\ \A k \in DOMAIN e.incoming \ DOMAIN l : e.sent[k] = e.incoming[k])
    /\ [][(\E out \in RemoteResults : evaluateIPCHook(out)) => metadata' = metadata]_vars

\* C21 witness: a post-run request was sent where the local response and the
\* incoming metadata both had "stdout_file", with a key on each side alone.
C21_ConflictMerged ==
    \E i \in 1..Len(evaluations) :
        /\ evaluations[i].remote
        /\ evaluations[i].lresp # <<>>
        /\ DOMAIN evaluations[i].lresp[1].md = {"stdout_file", "note"}
        /\ "stdout_file" \in DOMAIN evaluations[i].incoming
        /\ evaluations[i].sent["stdout_file"] = "x"
        /\ evaluations[i].sent["stderr_file"] = "err"

\* C22: when the local stage returns a response with exit = true, no request
\* is sent to the interceptor for that phase and the combined response of the
\* phase is the local response.
C22_LocalExitSkipsRemote ==
    \A i \in 1..Len(evaluations) :
        (evaluations[i].lresp # <<>> /\ evaluations[i].lresp[1].exit) =>
            /\ ~evaluations[i].remote
            /\ evaluations[i].resp = evaluations[i].lresp

\* C22 witness: a wrapper with a socket path finished a post-run phase in
\* which the local stage asked for exit, after a pre-run phase that sent a
\* request.
C22_LocalExitWithSocket ==
    /\ socketSet
    /\ Len(evaluations) = 2
    /\ evaluations[1].remote
    /\ evaluations[2].lresp # <<>>
    /\ evaluations[2].lresp[1].exit
    /\ upc = "exited"

\* C23 as stated: EvaluateLocal is invoked iff the hook is a local hook and
\* its commands list has the element-0 name, compared exactly, or "*"; the
\* remote stage runs if and only if the socket path is set; without any stage
\* the combined response is exit = false with empty metadata.
C23_RemoteIffSocketSet ==
    \A i \in 1..Len(evaluations) :
        LET e == evaluations[i]
        IN  /\ e.local <=> /\ wHook = "local"
                           /\ (command[1] \in hookCommands \/ "*" \in hookCommands)
            /\ e.remote <=> socketSet
            /\ (~e.local /\ ~e.remote) => e.resp = <<[exit |-> FALSE, md |-> EmptyMap]>>

\* C23 amended: the local stage and the default as stated, and the remote
\* stage runs if and only if the socket path is set and the local stage
\* neither failed nor returned exit = true.
C23_RemoteIffSocketSetAndLocalWentOn ==
    \A i \in 1..Len(evaluations) :
        LET e == evaluations[i]
        IN  /\ e.local <=> /\ wHook = "local"
                           /\ (command[1] \in hookCommands \/ "*" \in hookCommands)
            /\ e.remote <=> /\ socketSet
                            /\ ~e.lerr
                            /\ ~(e.lresp # <<>> /\ e.lresp[1].exit)
            /\ (~e.local /\ ~e.remote) => e.resp = <<[exit |-> FALSE, md |-> EmptyMap]>>

\* C23 witness: a local hook listing "curl" and "CURL" was not consulted for
\* `wget curl`, and both phases of the run, without socket path, got the
\* default response.
C23_NoStageRan ==
    /\ wHook = "local"
    /\ hookCommands = {"curl", "CURL"}
    /\ command = <<"wget", "curl">>
    /\ ~socketSet
    /\ Len(evaluations) = 2
    /\ ~evaluations[2].local
    /\ evaluations[2].resp = <<[exit |-> FALSE, md |-> EmptyMap]>>

\* C24: when the pre-run and the post-run evaluation both allowed, the
\* wrapper's exit status is the exit status of the real program, zero or not;
\* and when the root child exited with a non-zero status and no abort was
\* asked for, Execute returned a failure that carries that status.
C24_ExitStatusRelayed ==
    /\ (/\ upc \in {"exited", "returned"}
        /\ captureFiles # "none"
        /\ Len(evaluations) = 2
        /\ \A i \in 1..2 : evaluations[i].resp # <<>> /\ ~evaluations[i].resp[1].exit)
          => wstatus = exitCode
    /\ (executed # <<>> /\ executed[1].status # 0)
          => executed[1].err = <<executed[1].status>>

\* C24 witness: the real program exited with 42 under allowing hooks, the
\* wrapper exited with 42, the root child did too and Execute returned the
\* failure with code 42.
C24_Code42Relayed ==
    /\ upc = "returned"
    /\ exitCode = <<42>>
    /\ wstatus = <<42>>
    /\ Len(evaluations) = 2
    /\ evaluations[2].remote
    /\ evaluations[2].resp # <<>>
    /\ executed = <<[status |-> 42, err |-> <<42>>]>>

\* C25: whenever a wrapper has exited after its two capture files were
\* created (post-run denial, post-run evaluation error, relay of exit status
\* zero, relay of a non-zero exit status), the capture files have been
\* deleted.
C25_CaptureFilesDeleted ==
    (upc \in {"exited", "returned"} /\ captureFiles # "none") => captureFiles = "removed"

\* C26: SetHook replaces the hook atomically: every remote evaluation is
\* performed by the hook that is installed when it starts, and one that runs
\* concurrently with SetHook by the hook before or the hook after the call.
C26_EvaluatedByInstalledHook ==
    [][\A c \in Wrappers :
         (hpc[c] = "eval" /\ (hpc'[c] # "eval" \/ evalOut'[c] # evalOut[c])) =>
             evalOut'[c] \in HookOutcomes(hookKind) \cup HookOutcomes(hookKind')]_vars

\* C27: from the end of Execute's setup until teardown the wrapper directory
\* holds exactly one owner-executable file for each name in the commands list
\* of the current hook and no other file, also after SetHook replaced the
\* hook during the session.
C27_WrapperDirMatchesHook ==
    (/\ wrapperDir = "present"
     /\ cpc \in {"select", "kill", "kill_wait", "kill_wait2", "wait_done", "returned"}) =>
        /\ DOMAIN wrapperFiles = ctlCommands
        /\ \A n \in DOMAIN wrapperFiles : wrapperFiles[n] = "0700"

\* C28: Execute with an empty command returns an error at once: the
\* interceptor is not started, no wrapper directory is created, no child is
\* spawned and the state of the controller is as before the call.
C28_EmptyCommandRejected ==
    [][ExecuteEmptyCommand =>
         /\ result' = "rejected"
         /\ UNCHANGED <<ivars, fvars, pvars, wvars>>
         /\ UNCHANGED <<cpc, abortAtReturn, epc, runErr, sigterm, sigkill>>]_vars

\* C28 witness: a new controller has rejected an empty command, and nothing
\* was started or created.
C28_RejectedOnNewController ==
    /\ result = "rejected"
    /\ cpc = "new"
    /\ starts = 0
    /\ listener = "nil"
    /\ socketFile = "absent"
    /\ wrapperDir = "absent"
    /\ epc = "none"
    /\ rpc = "none"

\* C29: connections are served concurrently: while a handler is inside the
\* hook's evaluation, another connection can be accepted, have its request
\* read and evaluated and its response written, each step being possible
\* without the first handler moving; the responses come in no fixed order.
C29_HandlersDoNotBlockEachOther ==
    \A c \in Wrappers : \A d \in Wrappers \ {c} :
        (Alive /\ hpc[c] = "eval") =>
            /\ (hpc[d] = "queued" /\ lpc = "accept" /\ listener = "open") => ENABLED Accept(d)
            /\ (hpc[d] = "reading" /\ line[d] # "none") => ENABLED readRequest(d)
            /\ hpc[d] = "eval" => \E out \in EvalOutcomes : ENABLED processRequest(d, out)
            /\ hpc[d] = "write" => ENABLED writeResponse(d, TRUE)

\* C29 witness: the second connection has its response on the wire while the
\* handler of the first, which was accepted, is still inside the evaluation.
C29_AnsweredWhileOtherEvaluates ==
    /\ hpc[1] = "eval"
    /\ hpc[2] = "done"
    /\ evalOut[2] # "none"
    /\ Len(wire[2]) = 1
    /\ Len(wire[1]) = 0

C32_RealProgramOutsideWrapperDir ==
    /\ [](launched # <<>> =>
            /\ ~ContainsMarker(launched[1].dir)
            /\ launched[1].dir # WrapperDirName
            /\ launched[1].env["PATH"] = path)
    /\ [][path' = path]_vars

\* C32 witness: with /usr/bin before the wrapper directory on PATH nothing
\* but the marker keeps the lookup of curl away from the wrapper script; the
\* program was started from /usr/bin with the whole PATH.
C32_LaunchedFromUsrBin ==
    /\ path = <<"/usr/local/bin", WrapperDirName, "/usr/bin">>
    /\ command = <<"curl">>
    /\ launched # <<>>
    /\ launched[1].dir = "/usr/bin"
    /\ launched[1].env["PATH"] = path
    /\ upc = "exited"

\* C33: the environment the controller builds for the root child is the
\* parent environment with the wrapper directory and ":" put before the value
\* of PATH (before /usr/bin:/bin:/usr/local/bin when the parent has no PATH),
\* every entry that is not PATH kept as it was, and CMDHOOKS_SOCKET set to the
\* path of the interceptor's socket; the wrapper directory is the first
\* directory of the new PATH.
C33_ChildEnvironment ==
    cmdEnv # <<>> =>
        LET old == Getenv(environ, "PATH")
            new == Getenv(cmdEnv, "PATH")
        IN  /\ new = IF old # <<>>
                       THEN << <<WrapperDirName, ":">> \o old[1] >>
                       ELSE << <<WrapperDirName, ":", "/usr/bin", ":", "/bin", ":",
                                 "/usr/local/bin">> >>
            /\ new[1][1] = WrapperDirName
            /\ \A i \in 1..Len(environ) :
                   ~HasPathPrefix(environ[i]) => cmdEnv[i] = environ[i]
            /\ \A key \in {"HOME", "PATHX"} : Getenv(cmdEnv, key) = Getenv(environ, key)
            /\ Getenv(cmdEnv, "CMDHOOKS_SOCKET") = << <<SocketPathName>> >>

\* The root child runs with the environment built from a parent environment
\* that has a PATHX, a HOME and a PATH, in this order.
C33_ChildStartedWithWrapperPath ==
    /\ environ = << <<"PATHX", "=", "1">>, HomeEntry, <<"PATH", "=", "/usr/bin", ":", "/bin">> >>
    /\ cmdEnv # <<>>
    /\ rpc = "running"
    /\ Getenv(cmdEnv, "PATH") = << <<WrapperDirName, ":", "/usr/bin", ":", "/bin">> >>

\* C34: a post-run evaluation is made only for an invocation whose real
\* program was launched: when the program is not found on the cleaned search
\* path, nothing is launched, no post_run request reaches the local or the
\* remote stage, and the wrapper ends with exit status 1.
C34_PostRunOnlyAfterLaunch ==
    /\ \A i \in 1..Len(evaluations) :
          (evaluations[i].hook = "post" /\ (evaluations[i].local \/ evaluations[i].remote))
              => launched # <<>>
    /\ (upc = "exited" /\ exitCode # <<>> /\ launched = <<>>) => wstatus = <<1>>

\* C35: Execute returns "execution terminated by user request", and signals
\* its child, only if an evaluation made during that same Execute returned
\* exit = true (an evaluation whose failure the interceptor answers with
\* Exit: true, raising the abort, is counted as one): an abort raised during an
\* earlier Execute of the controller has no effect on a later one.
C35_AbortOnlyFromOwnEvaluation ==
    /\ result = "terminated" => (exitEval \/ raised)
    /\ (sigterm \/ sigkill) => (exitEval \/ raised)

\* C36: a second Execute serves wrapper requests like the first; in
\* particular, while the root child of an Execute that follows an earlier one
\* runs, the accept loop of the interceptor is running.
C36_AcceptLoopRunsWhileChildRuns ==
    (starts >= 2 /\ cpc = "select" /\ rpc = "running") => lpc \in {"check", "accept"}

\* C37: the wrapper directory and the socket file are removed only after the
\* root child has terminated: while the root child, a wrapper it started or
\* the real program of one runs, neither has been removed by the teardown of
\* Execute.
C37_NoTeardownWhileChildRuns ==
    GroupRunning => (wrapperDir # "absent" /\ socketFile # "absent")

\* C38: Stop eventually returns when every hook evaluation terminates, also
\* when a client has connected and never sends a request line or never closes
\* its connection (a crashed process aside).
C38_StopReturns ==
    (cpc \in {"stop1", "stopping"}) ~> (cpc = "closed" \/ ~Alive)

\* C39: when createWrappers fails during the setup of Execute, Execute returns
\* an error without spawning the root child, and on return the interceptor is
\* stopped (no listener, no accept loop), its socket file is removed (or could
\* not be removed) and no wrapper directory of that call remains.
C39_FailedSetupLeavesNothing ==
    (cpc = "closed" /\ result = "setup_failed") =>
        /\ epc \in {"none", "done"}
        /\ rpc # "running"
        /\ listener # "open"
        /\ lpc \notin {"check", "accept"}
        /\ socketFile # "present"
        /\ wrapperDir # "present"

====
